---- MODULE Spec2Model ----
(***************************************************************************)
(* Model of the discovery-to-ranking pipeline worker (apps/worker).        *)
(*                                                                         *)
(* The sub-systems are modelled each with its own specification:           *)
(*   SnapshotSpec  the tiered snapshot scheduler: several worker processes *)
(*                 run SnapshotService.run against one PostgreSQL database *)
(*   ClientSpec    the platform client of one process: the quota tracker,  *)
(*                 the three API calls and make_request's retry loop       *)
(*   GatingSpec    GatingService.gate_batch over any batch of candidates   *)
(*                 and any preloaded state, up to the batch insert         *)
(*   IngestSpec    successive runs of run_ingest_pipeline: the feeders in  *)
(*                 their order, gating, the batch insert                   *)
(*   ClusterSeqSpec  successive clustering passes of one process           *)
(*   ClusterSpec   clustering passes of two processes for the same window, *)
(*                 each repository call committed on its own               *)
(*   StableIdSpec  stable_cluster_id on any two argument lists             *)
(*   RerunSpec     an ingest run made once more on the same candidates     *)
(*   WorkerSpec    the worker process: cli, the mode runner and its loop,  *)
(*                 the stage functions by their outcome, the metrics       *)
(*                 records, the shutdown signals; WorkerFairSpec adds the  *)
(*                 fairness of the program's own steps                     *)
(*   SaveSpec      the batch methods of the snapshot repository, one       *)
(*                 INSERT at a time inside a transaction                   *)
(*   ScoreSpec     compute_video_scores over tables filled before it       *)
(*   AdmitSpec     the two paths that write discovered_videos: the ingest  *)
(*                 pipeline from gate_batch on, and rss-expand             *)
(*   AgeSpec       check_age_eligibility at the bounds of the windows      *)
(*   BatchSpec     the loop of _snapshot_videos for any batch size         *)
(*   SeedSpec      the intent-seed feeder run by two processes;            *)
(*                 SeedFairSpec adds the fairness of their runs            *)
(*   DueFairSpec   snapshot runs of one worker one after the other, the    *)
(*                 platform having no statistics for one of the videos     *)
(* Time is counted in hours.  A nullable SQL / Python value is modelled as *)
(* a set: {} is NULL / None, {x} is the value x.                           *)
(***************************************************************************)
EXTENDS Integers, Sequences, FiniteSets, TLC

VARIABLES
    now,                   \* the wall clock, in hours
    discovered_videos,     \* table discovered_videos: video_id -> row
    video_scores,          \* table video_scores, "window" = '7d': video_id -> velocity_24h (nullable)
    video_stat_snapshots,  \* table video_stat_snapshots: the committed rows
    row_locks,             \* row-level locks on discovered_videos: video_id -> holder (nullable)
    conn,                  \* per worker process: its connection and the position of its run
    quota,                 \* the process-local QuotaTracker
    call,                  \* the platform call in progress in the client
    ingest,                \* the position of run_ingest_pipeline and its local variables
    ingestion_state,       \* table ingestion_state: cursor_position of feeder intent_seed
    gating,                \* the GatingService of the ingest run
    existing_video_ids,    \* video_id of the rows of discovered_videos first seen in the last 7 days
    channel_counts_24h,    \* per channel: rows of discovered_videos first seen in the last 24 hours
    video_rows,            \* table discovered_videos as the ingest pipeline writes it: video_id -> row
    platform,              \* what the platform returns to the searches of a run, and the runs made
    niche_clusters,        \* table niche_clusters: the committed rows
    niche_cluster_videos,  \* table niche_cluster_videos: the committed rows
    cluster_pass,          \* per clustering process: the position of cluster_videos and its locals
    fn,                    \* the pure function under evaluation: its arguments and its result
    worker,                \* the worker process: cli, the mode runner, the run in flight
    metrics,               \* the collector: the metrics object of the run in flight, the records logged
    score_rows,            \* table video_scores: video_id -> the row of the window scored (nullable)
    scoring,               \* the scoring pass: the position of compute_video_scores and its locals
    rss,                   \* the rss-expand subcommand: its position, the locals of the feeder and the feeds read
    seed_feeder            \* the intent-seed feeder run by itself: per process its run, and the seeds searched so far

vars == <<now, discovered_videos, video_scores, video_stat_snapshots,
          row_locks, conn, quota, call,
          ingest, ingestion_state, gating, existing_video_ids, channel_counts_24h,
          video_rows, platform,
          niche_clusters, niche_cluster_videos, cluster_pass,
          fn,
          worker,
          metrics,
          score_rows,
          scoring,
          rss,
          seed_feeder>>

snapshot_vars == <<discovered_videos, video_scores, video_stat_snapshots,
                   row_locks, conn>>

client_vars == <<quota, call>>

ingest_vars == <<ingest, ingestion_state, gating, existing_video_ids, channel_counts_24h,
                 video_rows, platform>>

cluster_vars == <<niche_clusters, niche_cluster_videos, cluster_pass>>

\* the variables of the sub-systems other than the scheduler and the client
rest_vars == <<ingest_vars, cluster_vars, fn, worker, metrics, score_rows, scoring, rss, seed_feeder>>

\* the variables the scoring pass leaves alone, the scheduler and the client apart
rest_vars_but_scoring == <<ingest_vars, cluster_vars, fn, worker, metrics, rss, seed_feeder>>

\* the variables the ingest pipeline leaves alone
non_ingest_vars == <<now, snapshot_vars, client_vars, cluster_vars, fn, worker, metrics, score_rows, scoring, rss, seed_feeder>>

\* the variables the evaluation of a pure function leaves alone
non_fn_vars == <<now, snapshot_vars, client_vars, ingest_vars, cluster_vars, worker, metrics, score_rows, scoring, rss, seed_feeder>>

\* the variables a clustering pass leaves alone
non_cluster_vars == <<now, snapshot_vars, client_vars, ingest_vars, fn, worker, metrics, score_rows, scoring, rss, seed_feeder>>

\* the variables the worker process leaves alone: it reads the tracker and the
\* clock, its stages are taken by their outcome
non_worker_vars == <<now, snapshot_vars, call, ingest_vars, cluster_vars, fn, score_rows, scoring, rss, seed_feeder>>

\* ---------------------------------------------------------------- bounds

MaxNow == 8
TickHours == 4

\* ---------------------------------------------------------- nullable values

NULL == {}

Some(x) == {x}

Val(s) == CHOOSE x \in s : TRUE

COALESCE(s, d) == IF s = NULL THEN d ELSE Val(s)

SetMax(S) == CHOOSE x \in S : \A y \in S : y <= x

\* ------------------------------------------------- snapshot scheduler: data

Videos == {"v1", "v2"}

Workers == {"w1", "w2"}

\* view counts the platform may report for a video
ViewCounts == {70}

\* Config defaults of the snapshot stage
tier_a_hours == 4
tier_b_hours == 12
tier_c_hours == 24

\* snapshot_max_per_run and snapshot_batch_size are read from the environment
\* of each worker process: scaled down, w1 leases up to MaxPerRun rows and w2
\* a single one
MaxPerRun == 2

max_per_run(w) == IF w = "w1" THEN MaxPerRun ELSE 1

batch_size == 1

\* thresholds hard-coded in the video_tiers query, in hours and views
TierAMaxAge == 48
TierAMinVelocity == 10000
TierBMaxAge == 168
TierBMinVelocity == 1000
MaxVideoAge == 2160

\* YouTubeClient.get_video_stats refuses more IDs than this
MaxIdsPerRequest == 50

\* The rows of discovered_videos: v1 takes every combination of a boundary
\* age and a boundary velocity, v2 leaves tier A while the clock runs.
PublishedAts(v) ==
    IF v = "v1" THEN {0 - 2156, 0 - 164, 0 - 44, 0} ELSE {0 - 44}

Velocities(v) ==
    IF v = "v1" THEN {NULL, Some(1000), Some(1001), Some(10000), Some(10001)}
    ELSE {NULL}

ChannelOf(v) == IF v = "v1" THEN "ch1" ELSE "ch2"

IdleConn ==
    [pc |-> "idle", tx |-> NULL, started_at |-> NULL, pending |-> {},
     candidates |-> <<>>, i |-> 0, all_stats |-> <<>>, quota_at |-> NULL]

\* ------------------------------------------- snapshot scheduler: the query

\* a faulty variant of Tier: the velocity thresholds taken as inclusive
Tier_InclusiveVelocity(published_at, velocity_24h, t) ==
    IF published_at > t - TierAMaxAge THEN "A"
    ELSE IF COALESCE(velocity_24h, 0) >= TierAMinVelocity THEN "A"
    ELSE IF published_at > t - TierBMaxAge THEN "B"
    ELSE IF COALESCE(velocity_24h, 0) >= TierBMinVelocity THEN "B"
    ELSE "C"

\* CASE ... END as tier
Tier(published_at, velocity_24h, t) ==
    IF published_at > t - TierAMaxAge THEN "A"
    ELSE IF COALESCE(velocity_24h, 0) > TierAMinVelocity THEN "A"
    ELSE IF published_at > t - TierBMaxAge THEN "B"
    ELSE IF COALESCE(velocity_24h, 0) > TierBMinVelocity THEN "B"
    ELSE "C"

\* (SELECT MAX(captured_at) FROM video_stat_snapshots ss WHERE ss.video_id = dv.video_id)
last_snapshot_at(v, rows) ==
    LET S == {s.captured_at : s \in {x \in rows : x.video_id = v}}
    IN  IF S = {} THEN NULL ELSE Some(SetMax(S))

\* WITH video_tiers AS (...): evaluated at now() = t over the rows visible
video_tiers(t, rows) ==
    {[video_id |-> v,
      channel_id |-> discovered_videos[v].channel_id,
      published_at |-> discovered_videos[v].published_at,
      velocity_24h |-> video_scores[v],
      last_snapshot_at |-> last_snapshot_at(v, rows),
      tier |-> Tier(discovered_videos[v].published_at, video_scores[v], t)]
     : v \in {x \in Videos : discovered_videos[x].published_at > t - MaxVideoAge}}

\* a faulty variant of TierInterval: the interval of tier A passed for every tier
TierInterval_AlwaysA(tier) == tier_a_hours

\* make_interval(hours => %s) with (tier_a_hours, tier_b_hours, tier_c_hours)
TierInterval(tier) ==
    CASE tier = "A" -> tier_a_hours
      [] tier = "B" -> tier_b_hours
      [] OTHER      -> tier_c_hours

\* WHERE (tier = 'A' AND (last_snapshot_at IS NULL OR last_snapshot_at < now() - ...)) OR ...
IsDue(r, t) ==
    \/ r.last_snapshot_at = NULL
    \/ Val(r.last_snapshot_at) < t - TierInterval(r.tier)

DueRows(t, rows) == {r \in video_tiers(t, rows) : IsDue(r, t)}

TierPriority(tier) ==
    CASE tier = "A" -> 1
      [] tier = "B" -> 2
      [] OTHER      -> 3

\* ORDER BY CASE tier ... END, last_snapshot_at NULLS FIRST
RowLE(r1, r2) ==
    \/ TierPriority(r1.tier) < TierPriority(r2.tier)
    \/ /\ TierPriority(r1.tier) = TierPriority(r2.tier)
       /\ \/ r1.last_snapshot_at = NULL
          \/ /\ r2.last_snapshot_at # NULL
             /\ Val(r1.last_snapshot_at) <= Val(r2.last_snapshot_at)

Min(a, b) == IF a <= b THEN a ELSE b

\* ORDER BY ... LIMIT n: every list the statement may return (ties in the
\* order are broken arbitrarily)
OrderedLimit(rows, n) ==
    LET k == Min(n, Cardinality(rows))
    IN  {s \in [1..k -> rows] :
           /\ \A a, b \in 1..k : a < b => s[a] # s[b] /\ RowLE(s[a], s[b])
           /\ \A r \in rows \ {s[a] : a \in 1..k} : \A a \in 1..k : RowLE(s[a], r)}

\* The primary SELECT reads FROM video_tiers only, and video_tiers is a WITH
\* query.  A locking clause without OF applies to the base tables of the
\* primary FROM list and does not reach into a WITH query.
FromList == {"video_tiers"}

WithQueries == {"video_tiers"}

LockingClauseTables == FromList \ WithQueries

\* FOR UPDATE: the rows of discovered_videos the statement locks
RowsLocked(result) ==
    IF LockingClauseTables = {} THEN {}
    ELSE {result[a].video_id : a \in 1..Len(result)}

\* SKIP LOCKED: rows locked by another transaction are passed over
NotLockedByOthers(w, rows) ==
    {r \in rows : row_locks[r.video_id] \subseteq {w}}

Visible(w) == video_stat_snapshots \cup conn[w].pending

\* every result get_due_videos may return to worker w in a transaction whose
\* now() is t
get_due_videos(w, t) ==
    OrderedLimit(NotLockedByOthers(w, DueRows(t, Visible(w))), max_per_run(w))

\* ------------------------------------------ snapshot scheduler: the client

\* What YouTubeClient.get_video_stats(batch) may do, as SnapshotService sees
\* it: return statistics for the IDs the platform knows (any subset of the
\* batch), or raise.  The quota tracker and the retries behind these outcomes
\* are modelled step by step in ClientSpec.
StatsOf(ids) ==
    UNION {[S -> ViewCounts] : S \in SUBSET ids}

get_video_stats_results(batch) ==
    LET ids == {batch[a] : a \in 1..Len(batch)}
    IN  IF Len(batch) = 0 THEN {[kind |-> "ok", stats |-> <<>>]}
        ELSE IF Len(batch) > MaxIdsPerRequest THEN {[kind |-> "ValueError", stats |-> <<>>]}
        ELSE {[kind |-> "ok", stats |-> f] : f \in StatsOf(ids)}
             \cup {[kind |-> k, stats |-> <<>>] :
                     k \in {"QuotaExceededError", "RetryableError", "YouTubeAPIError"}}

\* dict.update
DictUpdate(d, f) ==
    [k \in DOMAIN d \cup DOMAIN f |-> IF k \in DOMAIN f THEN f[k] ELSE d[k]]

\* ----------------------------------------- snapshot scheduler: transactions

ReleaseLocks(w) ==
    [v \in Videos |-> IF row_locks[v] = Some(w) THEN NULL ELSE row_locks[v]]

\* a faulty variant of CommitRows: the rows replace the earlier rows of their videos
CommitRows_Upsert(w) ==
    {r \in video_stat_snapshots :
        \A p \in conn[w].pending : p.video_id # r.video_id} \cup conn[w].pending

\* conn.commit(): the rows the transaction inserted become visible to all
CommitRows(w) == video_stat_snapshots \cup conn[w].pending

\* a faulty variant of RollbackRows: the open transaction is committed instead
RollbackRows_KeepsPending(w) == video_stat_snapshots \cup conn[w].pending

\* rollback, also the one PostgreSQL does when the connection closes
RollbackRows(w) == video_stat_snapshots

\* ---------------------------------------------- snapshot scheduler: a run

\* SnapshotService.run up to the call of _snapshot_videos.  The connection is
\* new, so the SELECT opens the transaction and now() is the current time.
run_select(w) ==
    /\ conn[w].pc = "idle"
    /\ \E result \in get_due_videos(w, now) :
         IF Len(result) = 0
         THEN UNCHANGED <<conn, row_locks>>
         ELSE /\ conn' = [conn EXCEPT ![w] =
                    [pc |-> "fetch", tx |-> Some(now), started_at |-> Some(now),
                     pending |-> {}, candidates |-> result, i |-> 0,
                     all_stats |-> <<>>, quota_at |-> NULL]]
              /\ row_locks' = [v \in Videos |->
                    IF v \in RowsLocked(result) THEN Some(w) ELSE row_locks[v]]
    /\ UNCHANGED <<now, discovered_videos, video_scores, video_stat_snapshots, client_vars, rest_vars>>

\* a faulty variant of OnQuotaExceeded: continue with the next batch instead of break
OnQuotaExceeded_Continues(c) ==
    [c EXCEPT !.quota_at = Some(c.i), !.i = c.i + batch_size]

\* except QuotaExceededError: ... break
OnQuotaExceeded(c) == [c EXCEPT !.quota_at = Some(c.i), !.pc = "save"]

VideoIds(candidates) == [a \in 1..Len(candidates) |-> candidates[a].video_id]

Batch(video_ids, i) == SubSeq(video_ids, i + 1, Min(i + batch_size, Len(video_ids)))

\* one iteration of the loop of _snapshot_videos
snapshot_videos_step(w) ==
    /\ conn[w].pc = "fetch"
    /\ LET c == conn[w]
           video_ids == VideoIds(c.candidates)
           next_i == c.i + batch_size
           next_pc == IF next_i >= Len(video_ids) THEN "save" ELSE "fetch"
       IN  \E out \in get_video_stats_results(Batch(video_ids, c.i)) :
             conn' = [conn EXCEPT ![w] =
               CASE out.kind = "ok" ->
                      [c EXCEPT !.all_stats = DictUpdate(c.all_stats, out.stats),
                                !.i = next_i, !.pc = next_pc]
                 [] out.kind = "QuotaExceededError" -> OnQuotaExceeded(c)
                 [] OTHER ->
                      [c EXCEPT !.i = next_i, !.pc = next_pc]]
    /\ UNCHANGED <<now, discovered_videos, video_scores, video_stat_snapshots,
                   row_locks, client_vars, rest_vars>>

\* VALUES (%s, now(), %s, %s, %s): now() is the start of the transaction
SnapshotRows(w) ==
    {[video_id |-> v, captured_at |-> Val(conn[w].tx),
      view_count |-> conn[w].all_stats[v]]
     : v \in DOMAIN conn[w].all_stats}

\* _save_snapshots and the INSERTs of save_snapshot_stats
save_snapshot_stats_insert(w) ==
    /\ conn[w].pc = "save"
    /\ conn' = [conn EXCEPT ![w] =
                  IF DOMAIN conn[w].all_stats = {}
                  THEN [conn[w] EXCEPT !.pc = "channels"]
                  ELSE [conn[w] EXCEPT !.pending = SnapshotRows(w), !.pc = "commit"]]
    /\ UNCHANGED <<now, discovered_videos, video_scores, video_stat_snapshots,
                   row_locks, client_vars, rest_vars>>

\* self.conn.commit() of save_snapshot_stats
save_snapshot_stats_commit(w) ==
    /\ conn[w].pc = "commit"
    /\ video_stat_snapshots' = CommitRows(w)
    /\ row_locks' = ReleaseLocks(w)
    /\ conn' = [conn EXCEPT ![w] = [conn[w] EXCEPT !.pending = {}, !.tx = NULL,
                                                     !.pc = "channels"]]
    /\ UNCHANGED <<now, discovered_videos, video_scores, client_vars, rest_vars>>

\* _update_channels, the return of run and the close of the connection
run_finish(w) ==
    /\ conn[w].pc = "channels"
    /\ video_stat_snapshots' = RollbackRows(w)
    /\ row_locks' = ReleaseLocks(w)
    /\ conn' = [conn EXCEPT ![w] = IdleConn]
    /\ UNCHANGED <<now, discovered_videos, video_scores, client_vars, rest_vars>>

\* the process dies or its connection drops in the middle of a run
crash(w) ==
    /\ conn[w].pc \in {"fetch", "save", "commit"}
    /\ video_stat_snapshots' = RollbackRows(w)
    /\ row_locks' = ReleaseLocks(w)
    /\ conn' = [conn EXCEPT ![w] = [conn[w] EXCEPT !.pending = {}, !.tx = NULL,
                                                     !.pc = "crashed"]]
    /\ UNCHANGED <<now, discovered_videos, video_scores, client_vars, rest_vars>>

\* the worker process is started again, with a new connection
restart(w) ==
    /\ conn[w].pc = "crashed"
    /\ conn' = [conn EXCEPT ![w] = IdleConn]
    /\ UNCHANGED <<now, discovered_videos, video_scores, video_stat_snapshots,
                   row_locks, client_vars, rest_vars>>

\* ------------------------- the snapshot repository, row by row (snapshot_repo.py)

\* the rows one call is given
MaxSaveRows == 2

SaveVideoIds == {"v1", "v2"}

\* the view counts the platform reports: a count may be lower than an earlier one
SaveViewCounts == {50, 70}

\* the two methods that insert a batch with one INSERT per row
SaveMethods == {"save_snapshot_stats", "insert_snapshots_batch"}

\* video_stats.items() in order, or the list snapshots: one entry per video
SaveBatches ==
    UNION {{s \in [1..n -> [video_id : SaveVideoIds, view_count : SaveViewCounts]] :
              \A a, b \in 1..n : a # b => s[a].video_id # s[b].video_id}
           : n \in 0..MaxSaveRows}

\* the method is entered: the with block opens a cursor; insert_snapshots_batch
\* returns 0 at once when it is given no row.  The connection is not in
\* autocommit mode, so the first statement opens a transaction.
save_begin(w, method, batch) ==
    /\ conn[w].pc = "idle"
    \* now() of a transaction is later than now() of the transactions before it
    /\ \A r \in video_stat_snapshots : r.captured_at < now
    /\ conn' = [conn EXCEPT ![w] =
         [pc |-> IF method = "insert_snapshots_batch" /\ Len(batch) = 0
                 THEN "returned" ELSE "execute",
          method |-> method, batch |-> batch, k |-> 0, saved |-> 0,
          tx |-> Some(now), tx_status |-> "intrans", pending |-> {},
          rejected |-> {}, returned |-> IF method = "insert_snapshots_batch" /\ Len(batch) = 0
                                        THEN Some(0) ELSE NULL]]
    /\ UNCHANGED <<now, discovered_videos, video_scores, video_stat_snapshots,
                   row_locks, client_vars, rest_vars>>

\* cur.execute(INSERT ...) inside try/except: the server carries the statement
\* out, or rejects it, which aborts the transaction; in an aborted transaction
\* every statement is rejected until the transaction ends.  The except clause
\* logs (or continues) and the loop goes on.
ExecuteInsert(c, accepted) ==
    LET s == c.batch[c.k + 1]
        row == [video_id |-> s.video_id, captured_at |-> Val(c.tx),
                view_count |-> s.view_count]
    IN  IF c.tx_status = "inerror"
        THEN [c EXCEPT !.k = @ + 1]
        ELSE IF accepted
        THEN [c EXCEPT !.k = @ + 1, !.pending = @ \cup {row}, !.saved = @ + 1]
        ELSE [c EXCEPT !.k = @ + 1, !.tx_status = "inerror",
                       !.rejected = @ \cup {c.k + 1}]

\* one turn of the for loop
save_execute(w, accepted) ==
    /\ conn[w].pc = "execute"
    /\ conn[w].k < Len(conn[w].batch)
    /\ conn' = [conn EXCEPT ![w] = ExecuteInsert(conn[w], accepted)]
    /\ UNCHANGED <<now, discovered_videos, video_scores, video_stat_snapshots,
                   row_locks, client_vars, rest_vars>>

\* self.conn.commit() and the return: the COMMIT of an aborted transaction is a
\* rollback, which psycopg does not report
save_commit(w) ==
    /\ conn[w].pc = "execute"
    /\ conn[w].k = Len(conn[w].batch)
    /\ video_stat_snapshots' =
         IF conn[w].tx_status = "intrans" THEN CommitRows(w) ELSE RollbackRows(w)
    /\ conn' = [conn EXCEPT ![w] =
         [conn[w] EXCEPT !.pc = "returned", !.pending = {},
                         !.tx_status = "idle", !.returned = Some(conn[w].saved)]]
    /\ UNCHANGED <<now, discovered_videos, video_scores, row_locks, client_vars, rest_vars>>

\* the caller has the count; the connection serves the next call
save_return(w) ==
    /\ conn[w].pc = "returned"
    /\ conn' = [conn EXCEPT ![w] = IdleConn]
    /\ UNCHANGED <<now, discovered_videos, video_scores, video_stat_snapshots,
                   row_locks, client_vars, rest_vars>>

\* --------------------------------------------------- quota tracker (quota.py)

\* the tracker is built with these daily limits; buffer_ratio is 0.1
MaxDailyLimit == 113

DailyLimits == {0, 3, MaxDailyLimit}

BufferPct == 10

\* UTC-8
PTOffsetHours == 8

\* a faulty variant of today_pt: the day changes at midnight UTC
today_pt_UTC(t) == t \div 24

\* midnight PT of the day that holds t, as a day number
today_pt(t) == (t - PTOffsetHours) \div 24

\* int(self.daily_limit * (1 - self.buffer_ratio))
effective_limit(q) == (q.daily_limit * (100 - q.buffer_pct)) \div 100

maybe_reset(q, t) ==
    IF q.last_reset = NULL \/ Val(q.last_reset) < today_pt(t)
    THEN [q EXCEPT !.used_today = 0, !.last_reset = Some(today_pt(t))]
    ELSE q

Max(a, b) == IF a >= b THEN a ELSE b

\* the value of the property remaining; reading it also runs _maybe_reset
remaining(q, t) ==
    Max(0, effective_limit(maybe_reset(q, t)) - maybe_reset(q, t).used_today)

\* a faulty variant of can_afford: any remaining quota is taken as enough
can_afford_AnyRemaining(q, t, cost) == remaining(q, t) > 0

\* return self.remaining >= cost
can_afford(q, t, cost) == remaining(q, t) >= cost

\* a faulty variant of consume: the cost is added without looking at the day
consume_NoReset(q, t, cost) == [q EXCEPT !.used_today = @ + cost]

consume(q, t, cost) ==
    [maybe_reset(q, t) EXCEPT !.used_today = maybe_reset(q, t).used_today + cost]

\* ------------------------------------------------- make_request (http.py)

\* QUOTA_COSTS
SearchCost == 100
VideosCost == 1
ChannelsCost == 1

QUOTA_COSTS(op) ==
    CASE op = "search.list" -> SearchCost
      [] op = "videos.list" -> VideosCost
      [] OTHER              -> ChannelsCost

\* stop_after_attempt(5)
StopAfterAttempt == 5

Exc(name) == [exc |-> name, status |-> 0, reason |-> ""]

Http(status, reason) == [exc |-> "", status |-> status, reason |-> reason]

\* what one requests.get may end in
Responses ==
    {Exc("Timeout"), Exc("ConnectionError"),
     Http(200, ""),
     Http(403, "quotaExceeded"), Http(403, "dailyLimitExceeded"), Http(403, "forbidden"),
     Http(429, ""), Http(400, ""), Http(404, ""),
     Http(500, ""), Http(501, ""), Http(502, ""), Http(503, ""), Http(504, "")}

\* a faulty variant of make_request_once: every 403 is taken as rate limiting
make_request_once_Every403Retryable(resp) ==
    IF resp.exc \in {"Timeout", "ConnectionError"} THEN "RetryableError"
    ELSE IF resp.status = 200 THEN "return"
    ELSE IF resp.status = 403 THEN "RetryableError"
    ELSE IF resp.status \in {500, 502, 503, 504} THEN "RetryableError"
    ELSE IF resp.status = 429 THEN "RetryableError"
    ELSE "YouTubeAPIError"

\* the body of make_request: what one attempt returns or raises
make_request_once(resp) ==
    IF resp.exc \in {"Timeout", "ConnectionError"} THEN "RetryableError"
    ELSE IF resp.status = 200 THEN "return"
    ELSE IF resp.status = 403
         THEN IF resp.reason \in {"quotaExceeded", "dailyLimitExceeded"}
              THEN "QuotaExceededError"
              ELSE "RetryableError"
    ELSE IF resp.status \in {500, 502, 503, 504} THEN "RetryableError"
    ELSE IF resp.status = 429 THEN "RetryableError"
    ELSE "YouTubeAPIError"

\* a faulty variant of Retries: one more attempt than stop_after_attempt allows
Retries_OneMoreAttempt(outcome, attempt_number) ==
    outcome = "RetryableError" /\ attempt_number <= StopAfterAttempt

\* a faulty variant of Retries: every exception is retried
Retries_AnyException(outcome, attempt_number) ==
    outcome # "return" /\ attempt_number < StopAfterAttempt

\* retry=retry_if_exception_type(RetryableError), stop=stop_after_attempt(5)
Retries(outcome, attempt_number) ==
    outcome = "RetryableError" /\ attempt_number < StopAfterAttempt

\* ------------------------------------------------ the client (client.py)

Ops == {"search.list", "videos.list", "channels.list"}

\* how many IDs a call of get_video_stats or get_channel_info is given
IdCounts == {0, 1, MaxIdsPerRequest, MaxIdsPerRequest + 1}

IdleCall ==
    [pc |-> "idle", op |-> "", n_ids |-> 0, attempts |-> 0,
     last_response |-> NULL, result |-> "", had |-> NULL]

\* a faulty variant of PreCheck: the request is built without asking the tracker
PreCheck_NoQuotaCheck(op, n) ==
    IF op # "search.list" /\ n = 0 THEN "return"
    ELSE IF op # "search.list" /\ n > MaxIdsPerRequest THEN "ValueError"
    ELSE "request"

\* search_videos, get_video_stats, get_channel_info up to make_request
PreCheck(op, n) ==
    IF op # "search.list" /\ n = 0 THEN "return"
    ELSE IF op # "search.list" /\ n > MaxIdsPerRequest THEN "ValueError"
    ELSE IF ~can_afford(quota, now, QUOTA_COSTS(op)) THEN "QuotaExceededError"
    ELSE "request"

client_call(op, n) ==
    /\ call.pc = "idle"
    /\ LET pre == PreCheck(op, n)
           checked == pre \in {"QuotaExceededError", "request"}
       IN  /\ quota' = IF checked THEN maybe_reset(quota, now) ELSE quota
           /\ call' = [pc |-> IF pre = "request" THEN "request" ELSE "idle",
                       op |-> op, n_ids |-> n, attempts |-> 0,
                       last_response |-> NULL,
                       result |-> IF pre = "request" THEN "" ELSE pre,
                       had |-> IF checked THEN Some(remaining(quota, now)) ELSE NULL]
    /\ UNCHANGED <<now, snapshot_vars, rest_vars>>

\* one attempt of make_request and, when the call ends with it, the rest of
\* the client method: self.quota.consume(cost) after a response with status 200
make_request_attempt(resp) ==
    /\ call.pc = "request"
    /\ LET outcome == make_request_once(resp)
           n == call.attempts + 1
       IN  /\ call' = [call EXCEPT
                         !.attempts = n,
                         !.last_response = Some(resp),
                         !.pc = IF Retries(outcome, n) THEN "request" ELSE "idle",
                         !.result = IF Retries(outcome, n) THEN "" ELSE outcome]
           /\ quota' = IF outcome = "return"
                       THEN consume(quota, now, QUOTA_COSTS(call.op))
                       ELSE quota
    /\ UNCHANGED <<now, snapshot_vars, rest_vars>>

\* --------------------- gating (domain/gating/rules.py, gating_service.py)

\* ingest_max_per_channel
ingest_max_per_channel == 5

\* the longest batch of candidates gated
MaxBatch == 4

\* the values max_per_channel is given
MaxPerChannels == {0, ingest_max_per_channel}

Channels == {"ch1", "ch2"}

SearchVideoIds == {"v0", "v1", "v2", "v3"}

HoursPerDay == 24

\* a VideoSearchResult: its video_id, channel_id, title and published_at (in
\* hours, as the clock)
VideoSearchResult(video_id, published_at) ==
    [video_id |-> video_id,
     channel_id |-> IF video_id = "v3" THEN "ch2" ELSE "ch1",
     title |-> "t1",
     published_at |-> published_at]

\* the candidates of the batches that are gated: published 1 day and 91 days
\* before the clock starts
GatingVideos ==
    {VideoSearchResult(v, -1 * HoursPerDay) : v \in SearchVideoIds}
       \cup {VideoSearchResult(v, -91 * HoursPerDay) : v \in {"v1", "v3"}}

\* DEFAULT_WINDOW_CONFIGS, in the order of the dict
WindowNames == <<"24h", "7d", "30d", "90d">>

WindowDays(w) ==
    CASE w = "24h" -> 1
      [] w = "7d"  -> 7
      [] w = "30d" -> 30
      [] OTHER     -> 90

\* a faulty variant of EligibleWindow: the bound is exclusive
EligibleWindow_Exclusive(age, w) == age < WindowDays(w) * HoursPerDay

\* age <= timedelta(days=config.days), the age in hours
EligibleWindow(age, w) == age <= WindowDays(w) * HoursPerDay

\* the windows with age <= timedelta(days=config.days), in the order of the
\* dict; now_ is datetime.now(timezone.utc)
check_age_eligibility(published_at, now_) ==
    LET age == now_ - published_at
        Keep(w) == EligibleWindow(age, w)
    IN  SelectSeq(WindowNames, Keep)

EmptyDict == [c \in {} |-> 0]

\* d.get(k, default)
DictGet(d, k, default) == IF k \in DOMAIN d THEN d[k] ELSE default

\* d[k] = v
DictSet(d, k, v) == [x \in DOMAIN d \cup {k} |-> IF x = k THEN v ELSE d[x]]

\* a faulty variant of check_channel_cap: a channel at its cap still passes
check_channel_cap_AtCap(channel_id, channel_counts, max_per_channel) ==
    DictGet(channel_counts, channel_id, 0) <= max_per_channel

\* True if under cap (can accept), False if at/over cap
check_channel_cap(channel_id, channel_counts, max_per_channel) ==
    DictGet(channel_counts, channel_id, 0) < max_per_channel

\* True if new (not duplicate), False if duplicate
check_duplicate(video_id, seen_video_ids) == video_id \notin seen_video_ids

GatingResult(accepted, video, feeder_source, rejection_reason, eligible_windows) ==
    [accepted |-> accepted, video |-> video, feeder_source |-> feeder_source,
     rejection_reason |-> rejection_reason, eligible_windows |-> eligible_windows]

GatingStats ==
    [total_candidates |-> 0, accepted |-> 0, rejected_duplicate |-> 0,
     rejected_too_old |-> 0, rejected_channel_cap |-> 0]

\* GatingService.__init__
NewGatingService(max_per_channel) ==
    [initialized |-> FALSE, seen_video_ids |-> {}, channel_counts |-> EmptyDict,
     max_per_channel |-> max_per_channel, stats |-> GatingStats,
     i |-> 0, results |-> <<>>]

\* a faulty variant of Rejected: the candidate is not counted in the total
Rejected_NotInTotal(g, video, feeder_source, reason, counter) ==
    [g EXCEPT !.stats[counter] = @ + 1,
              !.results = Append(@, GatingResult(FALSE, video, feeder_source, reason, <<>>))]

\* what gate does to the service on a rejection: a counter, and the result
Rejected(g, video, feeder_source, reason, counter) ==
    [g EXCEPT !.stats[counter] = @ + 1,
              !.stats.total_candidates = @ + 1,
              !.results = Append(@, GatingResult(FALSE, video, feeder_source, reason, <<>>))]

\* a faulty variant of Accepted: the seen set is not updated
Accepted_SeenNotUpdated(g, video, feeder_source) ==
    [g EXCEPT !.channel_counts =
                 DictSet(@, video.channel_id, DictGet(@, video.channel_id, 0) + 1),
              !.stats.accepted = @ + 1,
              !.stats.total_candidates = @ + 1,
              !.results = Append(@, GatingResult(TRUE, video, feeder_source, "",
                                                 check_age_eligibility(video.published_at, now)))]

\* what gate does to the service on an acceptance
Accepted(g, video, feeder_source) ==
    [g EXCEPT !.seen_video_ids = @ \cup {video.video_id},
              !.channel_counts =
                 DictSet(@, video.channel_id, DictGet(@, video.channel_id, 0) + 1),
              !.stats.accepted = @ + 1,
              !.stats.total_candidates = @ + 1,
              !.results = Append(@, GatingResult(TRUE, video, feeder_source, "",
                                                 check_age_eligibility(video.published_at, now)))]

\* a faulty variant of gate: the channel cap is looked at before the duplicate
gate_CapFirst(g, video, feeder_source) ==
    IF ~check_channel_cap(video.channel_id, g.channel_counts, g.max_per_channel)
    THEN Rejected(g, video, feeder_source, "channel_cap", "rejected_channel_cap")
    ELSE IF ~check_duplicate(video.video_id, g.seen_video_ids)
    THEN Rejected(g, video, feeder_source, "duplicate", "rejected_duplicate")
    ELSE IF check_age_eligibility(video.published_at, now) = <<>>
    THEN Rejected(g, video, feeder_source, "too_old", "rejected_too_old")
    ELSE Accepted(g, video, feeder_source)

\* GatingService.gate, the service being initialized
gate(g, video, feeder_source) ==
    IF ~check_duplicate(video.video_id, g.seen_video_ids)
    THEN Rejected(g, video, feeder_source, "duplicate", "rejected_duplicate")
    ELSE IF check_age_eligibility(video.published_at, now) = <<>>
    THEN Rejected(g, video, feeder_source, "too_old", "rejected_too_old")
    ELSE IF ~check_channel_cap(video.channel_id, g.channel_counts, g.max_per_channel)
    THEN Rejected(g, video, feeder_source, "channel_cap", "rejected_channel_cap")
    ELSE Accepted(g, video, feeder_source)

\* a faulty variant of get_channel_counts_24h: no count comes back
get_channel_counts_24h_NoRows(channel_ids) == EmptyDict

\* SELECT channel_id, COUNT(*) ... WHERE channel_id = ANY(%s) ... GROUP BY channel_id
get_channel_counts_24h(channel_ids) ==
    [c \in {x \in channel_ids : channel_counts_24h[x] > 0} |-> channel_counts_24h[c]]

\* the channels of a list of (feeder_source, video)
ChannelIds(candidates) ==
    {candidates[a][2].channel_id : a \in 1..Len(candidates)}

\* run_ingest_pipeline not running. The fields: pc, where the run is; f, the
\* feeder of run_all_feeders that is running, as its place in the order;
\* invoked, the feeders invoked so far; all_candidates; of the running feeder:
\* cursor, queries (seeds_to_process, queries_to_run or queries), k (the
\* iterations made), stopped (the loop was left by break), seeds_processed;
\* quota_exceeded, the feeders that logged "Quota exceeded"
IdleIngest ==
    [pc |-> "idle", f |-> 0, invoked |-> <<>>, all_candidates |-> <<>>,
     cursor |-> 0, queries |-> <<>>, k |-> 0, stopped |-> FALSE,
     seeds_processed |-> 0, quota_exceeded |-> {}]

\* ------------------------------- the feeders (app/feeders/runner.py, intent_seed.py)

\* len(INTENT_SEEDS)
SeedCount == 5

\* INTENT_SEEDS, a seed being named by its index
INTENT_SEEDS == [a \in 1..SeedCount |-> a - 1]

\* seeds_per_run
seeds_per_run == 2

\* how many queries the expansion feeder and the long-tail feeder run
QueryCounts == {0, 1}

\* a faulty variant of FeederOrder: the long-tail feeder runs first
FeederOrder_LongtailFirst == <<"longtail", "graph_expand", "intent_seed">>

\* the feeders of run_all_feeders by the tag they give their candidates
FeederOrder == <<"intent_seed", "graph_expand", "longtail">>

\* the videos the searches of an ingest run return
IngestVideos ==
    {VideoSearchResult("v1", -1 * HoursPerDay), VideoSearchResult("v3", -1 * HoursPerDay)}

\* what one search_videos of a feeder ends in
SearchOutcomes ==
    {[kind |-> "return", videos |-> l] : l \in {<<>>} \cup {<<v>> : v \in IngestVideos}}
       \cup {[kind |-> "QuotaExceededError", videos |-> <<>>],
             [kind |-> "Exception", videos |-> <<>>]}

\* seq[a:b] of Python, for 0 <= a
Slice(seq, a, b) == SubSeq(seq, a + 1, Min(b, Len(seq)))

\* PostgresIngestionStateRepository.get_cursor
get_cursor == ingestion_state

\* seeds_to_process and cursor of IntentSeedFeeder.generate_candidates
SeedsToProcess(cursor) ==
    IF Slice(INTENT_SEEDS, cursor, cursor + seeds_per_run) = <<>>
    THEN [cursor |-> 0, seeds |-> Slice(INTENT_SEEDS, 0, seeds_per_run)]
    ELSE [cursor |-> cursor, seeds |-> Slice(INTENT_SEEDS, cursor, cursor + seeds_per_run)]

\* a faulty variant of NewCursor: the cursor moves by seeds_per_run whatever was processed
NewCursor_BySeedsPerRun(cursor, seeds_processed) ==
    IF cursor + seeds_per_run >= Len(INTENT_SEEDS) THEN 0 ELSE cursor + seeds_per_run

\* a faulty variant of NewCursor: no wrap around
NewCursor_NoWrap(cursor, seeds_processed) == cursor + seeds_processed

\* new_cursor = cursor + seeds_processed, wrapped around
NewCursor(cursor, seeds_processed) ==
    IF cursor + seeds_processed >= Len(INTENT_SEEDS) THEN 0 ELSE cursor + seeds_processed

\* the runner enters the try block of the feeder at place idx
StartFeeder(ing, idx, cursor, queries) ==
    [ing EXCEPT !.pc = "feeder", !.f = idx, !.invoked = Append(@, FeederOrder[idx]),
                !.cursor = cursor, !.queries = queries, !.k = 0, !.stopped = FALSE,
                !.seeds_processed = 0]

\* run_ingest_pipeline calls run_all_feeders, which starts the intent-seed
\* feeder: generate_candidates up to its loop
run_all_feeders_begin ==
    /\ ingest.pc = "idle"
    /\ LET s == SeedsToProcess(get_cursor)
       IN  ingest' = StartFeeder(IdleIngest, 1, s.cursor, s.seeds)
    /\ UNCHANGED <<ingestion_state, gating, existing_video_ids, channel_counts_24h,
                   video_rows, platform, non_ingest_vars>>

\* the candidates one search adds: all_candidates.append((tag, video))
Tagged(tag, videos) == [a \in 1..Len(videos) |-> <<tag, videos[a]>>]

\* one iteration of the loop of generate_candidates of the running feeder
feeder_search ==
    /\ ingest.pc = "feeder"
    /\ ~ingest.stopped
    /\ ingest.k < Len(ingest.queries)
    /\ \E out \in SearchOutcomes :
          ingest' =
            CASE out.kind = "return" ->
                   [ingest EXCEPT
                      !.k = @ + 1,
                      !.all_candidates = @ \o Tagged(FeederOrder[ingest.f], out.videos),
                      !.seeds_processed = IF ingest.f = 1 THEN @ + 1 ELSE @]
              [] out.kind = "QuotaExceededError" ->
                   [ingest EXCEPT
                      !.k = @ + 1,
                      !.stopped = TRUE,
                      !.quota_exceeded = @ \cup {FeederOrder[ingest.f]}]
              [] OTHER ->
                   [ingest EXCEPT !.k = @ + 1]
    /\ UNCHANGED <<ingestion_state, gating, existing_video_ids, channel_counts_24h,
                   video_rows, platform, non_ingest_vars>>

\* a faulty variant of NextFeeder: QuotaExceeded ends run_all_feeders
NextFeeder_QuotaEndsRun(ing) ==
    IF ing.stopped THEN Len(FeederOrder) + 1 ELSE ing.f + 1

\* the place of the feeder the runner goes on with after the running one,
\* whether that one ended by itself or by QuotaExceeded
NextFeeder(ing) == ing.f + 1

\* the loop of the running feeder is over: the feeder saves its state (the
\* intent-seed feeder its cursor) and the runner goes on, with the next
\* feeder or with the return to run_ingest_pipeline
feeder_end ==
    /\ ingest.pc = "feeder"
    /\ ingest.stopped \/ ingest.k = Len(ingest.queries)
    /\ ingestion_state' = IF ingest.f = 1
                          THEN NewCursor(ingest.cursor, ingest.seeds_processed)
                          ELSE ingestion_state
    /\ IF NextFeeder(ingest) <= Len(FeederOrder)
       THEN \E n \in QueryCounts :
               ingest' = StartFeeder(ingest, NextFeeder(ingest), 0, [a \in 1..n |-> a])
       ELSE ingest' = IF ingest.all_candidates = <<>>
                      THEN IdleIngest
                      ELSE [ingest EXCEPT !.pc = "gating"]
    /\ UNCHANGED <<gating, existing_video_ids, channel_counts_24h, video_rows, platform, non_ingest_vars>>

\* no run has asked the platform
IdlePlatform == [candidates |-> <<>>, runs |-> 0, at |-> 0, prev_at |-> 0]

\* a row of discovered_videos stored by an earlier run
StoredRow(video_id, title, first_seen_at) ==
    [channel_id |-> VideoSearchResult(video_id, 0).channel_id, title |-> title,
     feeder |-> "intent_seed", published_at |-> -1 * HoursPerDay,
     first_seen_at |-> first_seen_at, last_seen_at |-> first_seen_at]

\* gating = GatingService(...); gate_batch up to its loop:
\* _load_existing_videos and _load_channel_counts
gate_batch_begin ==
    /\ ingest.pc = "gating"
    /\ gating' = [NewGatingService(gating.max_per_channel) EXCEPT
                    !.initialized = TRUE,
                    !.seen_video_ids = existing_video_ids,
                    !.channel_counts =
                       DictUpdate(EmptyDict,
                                  get_channel_counts_24h(ChannelIds(ingest.all_candidates)))]
    /\ ingest' = [ingest EXCEPT !.pc = "gate"]
    /\ UNCHANGED <<ingestion_state, existing_video_ids, channel_counts_24h, video_rows, platform, non_ingest_vars>>

\* one iteration of the loop of gate_batch
gate_batch_step ==
    /\ ingest.pc = "gate"
    /\ gating.i < Len(ingest.all_candidates)
    /\ LET c == ingest.all_candidates[gating.i + 1]
       IN  gating' = [gate(gating, c[2], c[1]) EXCEPT !.i = gating.i + 1]
    /\ ingest' = [ingest EXCEPT
                    !.pc = IF gating.i + 1 = Len(ingest.all_candidates)
                           THEN "insert" ELSE "gate"]
    /\ UNCHANGED <<ingestion_state, existing_video_ids, channel_counts_24h, video_rows, platform, non_ingest_vars>>

\* gating.get_accepted(gating_results)
get_accepted(results) == SelectSeq(results, LAMBDA r : r.accepted)

\* the channel counts after the rows of ids have been inserted
CountsAfterInsert(accepted, ids) ==
    [c \in Channels |->
        channel_counts_24h[c]
          + Cardinality({a \in 1..Len(accepted) :
                           /\ accepted[a].video.channel_id = c
                           /\ accepted[a].video.video_id \in ids})]

\* DiscoveredVideo.from_search_result and the VALUES of the INSERT
NewRow(video, feeder) ==
    [channel_id |-> video.channel_id, title |-> video.title, feeder |-> feeder,
     published_at |-> video.published_at, first_seen_at |-> now, last_seen_at |-> now]

\* ON CONFLICT (video_id) DO UPDATE SET last_seen_at = now(), title, thumbnail_url,
\* channel_title (the last two go with title here)
OnConflict(row, video) == [row EXCEPT !.last_seen_at = now, !.title = video.title]

\* the statements of the loop of upsert_videos_batch, one per accepted candidate
RECURSIVE upsert_rows(_, _)
upsert_rows(rows, accepted) ==
    IF accepted = <<>> THEN rows
    ELSE LET video == Head(accepted).video
             row == IF video.video_id \in DOMAIN rows
                    THEN OnConflict(rows[video.video_id], video)
                    ELSE NewRow(video, Head(accepted).feeder_source)
         IN  upsert_rows(DictSet(rows, video.video_id, row), Tail(accepted))

\* run_ingest_pipeline after gate_batch: upsert_videos_batch of the accepted
\* candidates. A video_id that has a row (older than 7 days, then) is updated
\* and keeps its first_seen_at; any other is inserted with first_seen_at = now().
upsert_videos_batch ==
    /\ ingest.pc = "insert"
    /\ LET accepted == get_accepted(gating.results)
           ids == {accepted[a].video.video_id : a \in 1..Len(accepted)}
           inserted == ids \ DOMAIN video_rows
       IN  /\ video_rows' = upsert_rows(video_rows, accepted)
           /\ existing_video_ids' = existing_video_ids \cup inserted
           /\ channel_counts_24h' = CountsAfterInsert(accepted, inserted)
    /\ ingest' = [ingest EXCEPT !.pc = "done"]
    /\ UNCHANGED <<ingestion_state, gating, platform, non_ingest_vars>>

\* run_ingest_pipeline returns: its locals and its GatingService are gone
run_ingest_pipeline_return ==
    /\ ingest.pc = "done"
    /\ ingest' = IdleIngest
    /\ gating' = NewGatingService(gating.max_per_channel)
    /\ UNCHANGED <<ingestion_state, existing_video_ids, channel_counts_24h, video_rows, platform, non_ingest_vars>>

\* ------------------------------------------------- a run made once more

MaxRuns == 2

RerunMaxBatch == 2

\* the hours that pass between two runs
RerunGaps == {1, 24}

\* the videos the platform returns: published 1 day and exactly 90 days before
\* the clock starts
RerunVideos ==
    {VideoSearchResult(v, p) : v \in {"v1", "v2"}, p \in {-1 * HoursPerDay, -90 * HoursPerDay}}

RerunBatches ==
    UNION {[1..n -> {<<"intent_seed", v>> : v \in RerunVideos}] : n \in 1..RerunMaxBatch}

\* discovered_videos before the first run: rows first seen 23 hours, 7 days
\* less an hour, and more than 8 days before the clock starts
RerunTables ==
    UNION {[ids -> {-23, 1 - 7 * HoursPerDay, -200}] : ids \in SUBSET {"v1", "v2"}}

\* SELECT video_id FROM discovered_videos
\* WHERE first_seen_at > now() - make_interval(days => 7)
get_existing_video_ids(rows, now_) ==
    {v \in DOMAIN rows : rows[v].first_seen_at > now_ - 7 * HoursPerDay}

\* SELECT channel_id, COUNT(*) ... WHERE first_seen_at > now() - interval '24 hours'
\* for every channel
count_rows_24h(rows, now_) ==
    [c \in Channels |->
        Cardinality({v \in DOMAIN rows : /\ rows[v].channel_id = c
                                          /\ rows[v].first_seen_at > now_ - 24})]

\* run_ingest_pipeline up to gate_batch, the feeders getting from the platform
\* the candidates they got in the previous run
run_all_feeders_same ==
    /\ ingest.pc = "idle"
    /\ platform.candidates # <<>>
    /\ platform.runs < MaxRuns
    /\ platform' = [platform EXCEPT !.runs = @ + 1, !.prev_at = platform.at, !.at = now]
    /\ ingest' = [IdleIngest EXCEPT !.pc = "gating", !.all_candidates = platform.candidates]
    /\ UNCHANGED <<ingestion_state, gating, existing_video_ids, channel_counts_24h,
                   video_rows, non_ingest_vars>>

\* time passes between two runs: the queries of the next run are evaluated at
\* the later now()
time_passes ==
    /\ ingest.pc = "idle"
    /\ platform.runs >= 1
    /\ platform.runs < MaxRuns
    /\ now = platform.at
    /\ \E gap \in RerunGaps : now' = now + gap
    /\ existing_video_ids' = get_existing_video_ids(video_rows, now')
    /\ channel_counts_24h' = count_rows_24h(video_rows, now')
    /\ UNCHANGED <<ingest, ingestion_state, gating, video_rows, platform,
                   snapshot_vars, client_vars, cluster_vars, fn, worker, metrics,
                   score_rows, scoring, rss, seed_feeder>>

\* ------------------------------------------------------------ clustering

\* the windows clustering passes are run for
ClusterWindows == {"7d", "30d"}

\* the videos that can have an embedding
EmbeddedVideoIds == {"v1", "v2", "v3", "v4"}

\* the video ids in ascending string order
\* further video ids, one of them the concatenation of the other two
StableVideoIds == {"a", "b", "ab"}

\* the characters of the windows and of the video ids
chars ==
    ("7d" :> <<"7", "d">>) @@ ("30d" :> <<"3", "0", "d">>) @@
    ("v1" :> <<"v", "1">>) @@ ("v2" :> <<"v", "2">>) @@
    ("v3" :> <<"v", "3">>) @@ ("v4" :> <<"v", "4">>) @@
    ("a" :> <<"a">>) @@ ("b" :> <<"b">>) @@ ("ab" :> <<"a", "b">>)

\* the code points of the characters
ord ==
    ("," :> 44) @@ ("0" :> 48) @@ ("1" :> 49) @@ ("2" :> 50) @@ ("3" :> 51) @@
    ("4" :> 52) @@ ("7" :> 55) @@ (":" :> 58) @@ ("a" :> 97) @@ ("b" :> 98) @@
    ("d" :> 100) @@ ("v" :> 118)

\* the order in which the SELECT of fetch_embeddings_for_window (no ORDER BY)
\* returns the rows
FetchOrder == <<"v4", "v3", "v2", "v1">>

cluster_min_size == 2

\* the processes that run clustering passes
ClusterProcs == {"c1", "c2"}

Range(seq) == {seq[a] : a \in 1..Len(seq)}

Pos(seq, x) == CHOOSE a \in 1..Len(seq) : seq[a] = x

\* s < t for two strings given by their characters (Python's str order)
RECURSIVE str_lt(_, _)
str_lt(s, t) ==
    IF t = <<>> THEN FALSE
    ELSE IF s = <<>> THEN TRUE
    ELSE IF ord[Head(s)] # ord[Head(t)] THEN ord[Head(s)] < ord[Head(t)]
    ELSE str_lt(Tail(s), Tail(t))

\* a list of strings in ascending order, equal strings all kept
RECURSIVE sort_strings(_)
sort_strings(strs) ==
    IF strs = <<>> THEN <<>>
    ELSE LET x == strs[Len(strs)]
             rest == sort_strings(SubSeq(strs, 1, Len(strs) - 1))
         IN  SelectSeq(rest, LAMBDA y : ~str_lt(chars[x], chars[y]))
                \o <<x>> \o
             SelectSeq(rest, LAMBDA y : str_lt(chars[x], chars[y]))

\* a faulty variant of sorted: the ids are hashed in the order given
sorted_AsGiven(video_ids) == video_ids

sorted(video_ids) == sort_strings(video_ids)

\* sep.join(strs), as characters
RECURSIVE join(_, _)
join(sep, strs) ==
    IF strs = <<>> THEN <<>>
    ELSE IF Len(strs) = 1 THEN chars[strs[1]]
    ELSE chars[strs[1]] \o sep \o join(sep, Tail(strs))

\* str(uuid.UUID(bytes=hashlib.sha256(content).digest()[:16])): the first 16
\* bytes of SHA-256 taken as free of collisions, one UUID per content
uuid_of_sha256(content) == <<"uuid", content>>

\* a faulty variant of stable_cluster_id: the window is left out of the hashed content
stable_cluster_id_IgnoresWindow(window, video_ids) ==
    uuid_of_sha256(<<":">> \o join(<<",">>, sorted(video_ids)))

stable_cluster_id(window, video_ids) ==
    LET sorted_ids == sorted(video_ids)
        content == chars[window] \o <<":">> \o join(<<",">>, sorted_ids)
    IN  uuid_of_sha256(content)

\* fetch_embeddings_for_window: the rows of the videos of the window that have
\* an embedding
fetch_embeddings_for_window(video_ids) == SelectSeq(FetchOrder, LAMBDA v : v \in video_ids)

\* run_hdbscan: one label per video, -1 for noise, the clusters numbered from 0
\* and of cluster_min_size videos at least
Labelings(videos) ==
    {labels \in [Range(videos) -> {-1, 0, 1}] :
        /\ \A l \in {0, 1} :
              LET members == {v \in Range(videos) : labels[v] = l}
              IN  members = {} \/ Cardinality(members) >= cluster_min_size
        /\ (\E v \in Range(videos) : labels[v] = 1) => (\E v \in Range(videos) : labels[v] = 0)}

\* cluster_groups: label -> videos, the noise left out, in the order the
\* labels first appear in videos
cluster_groups(videos, labels) ==
    LET first == SelectSeq(videos, LAMBDA v :
                    /\ labels[v] # -1
                    /\ \A a \in 1..Len(videos) :
                          labels[videos[a]] = labels[v] => Pos(videos, v) <= a)
    IN  [a \in 1..Len(first) |-> SelectSeq(videos, LAMBDA u : labels[u] = labels[first[a]])]

IdlePass == [pc |-> "idle", window |-> "", groups |-> <<>>, k |-> 0,
             created_cluster_ids |-> {}, deleted |-> 0, status |-> ""]

ClusterIdle ==
    /\ niche_clusters = {}
    /\ niche_cluster_videos = {}
    /\ cluster_pass = [p \in ClusterProcs |-> IdlePass]

\* niche_cluster_videos.cluster_id references niche_clusters.cluster_id: a row
\* can be inserted only for an existing cluster
references_cluster(clusters, cluster_id) == \E c \in clusters : c.cluster_id = cluster_id

\* ... and the rows of a deleted cluster go with it
on_delete_cascade(rows, deleted_ids) == {m \in rows : m.cluster_id \notin deleted_ids}

\* cluster_videos(window) up to the loop over the clusters
cluster_videos_begin(p, window) ==
    /\ cluster_pass[p].pc = "idle"
    /\ \E video_ids \in SUBSET EmbeddedVideoIds :
          LET videos == fetch_embeddings_for_window(video_ids)
          IN  IF videos = <<>>
              THEN cluster_pass' = [cluster_pass EXCEPT ![p] =
                      [IdlePass EXCEPT !.pc = "returned", !.window = window,
                                       !.status = "no_data"]]
              ELSE \E labels \in Labelings(videos) :
                      LET groups == cluster_groups(videos, labels)
                      IN  cluster_pass' = [cluster_pass EXCEPT ![p] =
                             [IdlePass EXCEPT
                                 !.pc = IF groups = <<>> THEN "delete_stale_clusters"
                                                         ELSE "upsert_cluster",
                                 !.window = window, !.groups = groups, !.k = 1]]
    /\ UNCHANGED <<niche_clusters, niche_cluster_videos, non_cluster_vars>>

\* the loop body up to the commit of upsert_cluster
upsert_cluster(p) ==
    LET pass == cluster_pass[p]
        video_ids == pass.groups[pass.k]
        cluster_id == stable_cluster_id(pass.window, video_ids)
        conflict == {c \in niche_clusters : c.cluster_id = cluster_id}
    IN  /\ pass.pc = "upsert_cluster"
        /\ niche_clusters' =
              IF conflict = {}
              THEN niche_clusters \cup
                      {[cluster_id |-> cluster_id, window |-> pass.window,
                        total_videos |-> Len(video_ids)]}
              ELSE (niche_clusters \ conflict) \cup
                      {[c EXCEPT !.total_videos = Len(video_ids)] : c \in conflict}
        /\ cluster_pass' = [cluster_pass EXCEPT ![p] =
              [pass EXCEPT !.pc = "upsert_cluster_videos",
                           !.created_cluster_ids = @ \cup {cluster_id}]]
        /\ UNCHANGED <<niche_cluster_videos, non_cluster_vars>>

\* upsert_cluster_videos, one transaction: the rows of the cluster deleted, the
\* new ones inserted; on a foreign-key violation the exception ends the pass
\* and the transaction is never committed
upsert_cluster_videos(p) ==
    LET pass == cluster_pass[p]
        video_ids == pass.groups[pass.k]
        cluster_id == stable_cluster_id(pass.window, video_ids)
        kept == {m \in niche_cluster_videos : m.cluster_id # cluster_id}
        inserted == {[cluster_id |-> cluster_id, video_id |-> video_ids[rank + 1],
                      rank_in_cluster |-> rank] : rank \in 0..(Len(video_ids) - 1)}
    IN  /\ pass.pc = "upsert_cluster_videos"
        /\ IF references_cluster(niche_clusters, cluster_id)
           THEN /\ niche_cluster_videos' = kept \cup inserted
                /\ cluster_pass' = [cluster_pass EXCEPT ![p] =
                      [pass EXCEPT !.k = @ + 1,
                                   !.pc = IF pass.k < Len(pass.groups)
                                          THEN "upsert_cluster"
                                          ELSE "delete_stale_clusters"]]
           ELSE /\ niche_cluster_videos' = niche_cluster_videos
                /\ cluster_pass' = [cluster_pass EXCEPT ![p] =
                      [pass EXCEPT !.pc = "returned", !.status = "error"]]
        /\ UNCHANGED <<niche_clusters, non_cluster_vars>>

\* delete_stale_clusters and the return of cluster_videos
delete_stale_clusters(p) ==
    LET pass == cluster_pass[p]
        stale == IF pass.created_cluster_ids # {}
                 THEN {c \in niche_clusters : /\ c.window = pass.window
                                              /\ c.cluster_id \notin pass.created_cluster_ids}
                 ELSE {c \in niche_clusters : c.window = pass.window}
    IN  /\ pass.pc = "delete_stale_clusters"
        /\ niche_clusters' = niche_clusters \ stale
        /\ niche_cluster_videos' =
              on_delete_cascade(niche_cluster_videos, {c.cluster_id : c \in stale})
        /\ cluster_pass' = [cluster_pass EXCEPT ![p] =
              [pass EXCEPT !.pc = "returned", !.deleted = Cardinality(stale),
                           !.status = "success"]]
        /\ UNCHANGED non_cluster_vars

\* the process is ready for its next pass
cluster_videos_return(p) ==
    /\ cluster_pass[p].pc = "returned"
    /\ cluster_pass' = [cluster_pass EXCEPT ![p] = IdlePass]
    /\ UNCHANGED <<niche_clusters, niche_cluster_videos, non_cluster_vars>>

\* -------------------------------------------------------- pure functions

IdleFn == [pc |-> "idle", args |-> <<>>, result |-> <<>>]

FnIdle == fn = IdleFn

MaxClusterVideos == 3

\* the lists of at most n distinct ids of a set: the videos of a cluster, each
\* video once (video_id is the key of video_embeddings)
DistinctLists(ids, n) ==
    UNION {{video_ids \in [1..k -> ids] :
               \A a, b \in 1..k : video_ids[a] = video_ids[b] => a = b} : k \in 1..n}

\* the arguments of a call of stable_cluster_id
StableIdArgs ==
    [window : ClusterWindows, video_ids : DistinctLists(StableVideoIds, MaxClusterVideos)]

\* stable_cluster_id evaluated on two argument lists
stable_cluster_id_call ==
    /\ fn.pc = "stable_cluster_id"
    /\ fn' = [fn EXCEPT !.pc = "done",
                        !.result = [a \in 1..2 |->
                            stable_cluster_id(fn.args[a].window, fn.args[a].video_ids)]]
    /\ UNCHANGED non_fn_vars

\* video_ids[i:i + size]
BatchOf(video_ids, i, size) == SubSeq(video_ids, i + 1, Min(i + size, Len(video_ids)))

\* what get_video_stats does with a batch, as _snapshot_videos sees it: the
\* ValueError above 50 ids and the QuotaExceededError of the pre-check come
\* before any request; otherwise the request is made and succeeds or fails
get_video_stats_outcomes(batch) ==
    IF Len(batch) > MaxIdsPerRequest THEN {"ValueError"}
    ELSE {"ok", "QuotaExceededError", "YouTubeAPIError"}

\* _snapshot_videos(candidates) of a service made with batch_size, the
\* leased ids being 1..n: the state at the start of the loop.  range() has
\* no value for a step of 0 (ValueError, outside the try) and none to go
\* through for a step below 0
snapshot_videos_locals(n, size) ==
    [i |-> 0, calls |-> 0, longest |-> 0, requested |-> [a \in 1..n |-> 0],
     ended_by |-> IF size = 0 THEN "ValueError" ELSE IF size < 0 THEN "return" ELSE ""]

\* one turn of the loop of _snapshot_videos; out is what get_video_stats does
snapshot_videos_turn(out) ==
    /\ fn.pc = "_snapshot_videos"
    /\ fn.result.ended_by = ""
    /\ LET r == fn.result
           n == fn.args.n
           video_ids == [a \in 1..n |-> a]
           batch == BatchOf(video_ids, r.i, fn.args.batch_size)
           ids == {batch[a] : a \in 1..Len(batch)}
           sent == out \in {"ok", "YouTubeAPIError"}
           next_i == r.i + fn.args.batch_size
           called == [r EXCEPT !.calls = @ + 1,
                               !.longest = Max(@, Len(batch)),
                               !.requested = [a \in 1..n |->
                                   IF sent /\ a \in ids THEN @[a] + 1 ELSE @[a]]]
       IN  /\ out \in get_video_stats_outcomes(batch)
           /\ fn' = [fn EXCEPT !.result =
                        IF out = "QuotaExceededError"
                        THEN [called EXCEPT !.ended_by = "quota"]
                        ELSE [called EXCEPT !.i = next_i,
                                            !.ended_by = IF next_i >= n THEN "return" ELSE ""]]
    /\ UNCHANGED non_fn_vars

\* _snapshot_videos is left: by return all_stats, or by the ValueError of range()
snapshot_videos_end ==
    /\ fn.pc = "_snapshot_videos"
    /\ fn.result.ended_by # ""
    /\ fn' = [fn EXCEPT !.pc = "done"]
    /\ UNCHANGED non_fn_vars

\* check_age_eligibility(published_at, now) is evaluated
check_age_eligibility_call ==
    /\ fn.pc = "check_age_eligibility"
    /\ fn' = [fn EXCEPT !.pc = "done",
                        !.result = check_age_eligibility(fn.args.published_at, fn.args.now)]
    /\ UNCHANGED non_fn_vars

\* ------------- the worker process (entrypoints/main.py, app/use_cases, metrics)

\* --mode
Modes == {"all", "ingest", "snapshot", "process"}

\* the stage functions one iteration of a mode calls, in order: run_all_pipelines
\* calls the three, the other one-shot runners call one
StagesOf(mode) ==
    CASE mode = "all"      -> <<"ingest", "snapshot", "process">>
      [] mode = "ingest"   -> <<"ingest">>
      [] mode = "snapshot" -> <<"snapshot">>
      [] OTHER             -> <<"process">>

\* the modes that need the platform key
NeedsApiKey(mode) == mode \in {"all", "ingest", "snapshot"}

\* the seconds slept between two iterations
SleepSeconds == 2

\* the iterations of the loop that are followed
MaxIterations == 2

\* signal.SIGINT, signal.SIGTERM
Signals == {"SIGINT", "SIGTERM"}

\* the ways the body of a stage function ends: the two early returns of ingest,
\* the end of the try block, an exception raised inside it
StagePaths(stage) ==
    CASE stage = "ingest"   -> {"no_candidates", "no_accepted", "completed",
                                "QuotaExceededError", "Exception"}
      [] stage = "snapshot" -> {"completed", "QuotaExceededError", "Exception"}
      [] OTHER              -> {"completed", "Exception"}

EarlyReturns == {"no_candidates", "no_accepted"}

Raised(path) == path \in {"QuotaExceededError", "Exception"}

\* the units the platform calls of a stage body may have consumed when it ends
SpentBy(stage) ==
    CASE stage = "ingest"   -> {0, SearchCost}
      [] stage = "snapshot" -> {0, VideosCost}
      [] OTHER              -> {0}

AllPaths == UNION {StagePaths(stage) : stage \in {"ingest", "snapshot", "process"}}

AllSpent == UNION {SpentBy(stage) : stage \in {"ingest", "snapshot", "process"}}

\* a faulty variant of except_clauses: only the quota error is handled
except_clauses_QuotaOnly(stage) == {"QuotaExceededError"}

\* the except clauses after the try block of a stage function
except_clauses(stage) ==
    IF stage = "process" THEN {"Exception"} ELSE {"QuotaExceededError", "Exception"}

\* QuotaExceededError is a subclass of Exception
Catches(stage, exc) ==
    exc \in except_clauses(stage) \/ "Exception" \in except_clauses(stage)

IngestMetrics(run_id) ==
    [stage |-> "ingest", run_id |-> run_id, quota_used |-> 0,
     quota_remaining |-> 0, errors |-> 0]

SnapshotMetrics(run_id) ==
    [stage |-> "snapshot", run_id |-> run_id, quota_used |-> 0,
     quota_remaining |-> 0, errors |-> 0]

ProcessMetrics(run_id) == [stage |-> "process", run_id |-> run_id, errors |-> 0]

\* JsonMetricsCollector()
NewCollector == [run_counter |-> 0, obj |-> NULL, log |-> <<>>]

\* _log_metrics
log_metrics(m, event_type, data) ==
    [m EXCEPT !.log = Append(@, [event |-> event_type, metrics |-> data])]

\* start_ingest_run, start_snapshot_run, start_process_run
start_run(m, stage) ==
    LET run_id == m.run_counter + 1
    IN  [m EXCEPT !.run_counter = run_id,
                  !.obj = Some(CASE stage = "ingest"   -> IngestMetrics(run_id)
                                 [] stage = "snapshot" -> SnapshotMetrics(run_id)
                                 [] OTHER              -> ProcessMetrics(run_id))]

\* finish_ingest_run, finish_snapshot_run, finish_process_run
finish_run(m, obj) == log_metrics(m, obj.stage \o "_complete", obj)

\* cli has installed handle_shutdown for both signals and is about to read the
\* configuration
NewWorker(mode, once, config) ==
    [pc |-> "cli", mode |-> mode, once |-> once, config |-> config,
     shutdown_requested |-> FALSE, signals |-> {}, iteration |-> 0,
     stage |-> 0, invoked |-> <<>>, raised |-> NULL, sleep_left |-> 0,
     exit_code |-> NULL, ended_by |-> ""]

\* no worker process
IdleWorker == [NewWorker("all", TRUE, "ok") EXCEPT !.pc = "none"]

WorkerIdle ==
    /\ worker = IdleWorker
    /\ metrics = NewCollector

\* a faulty variant of Exit: every exit is reported as a success
Exit_AlwaysZero(w, code, why) ==
    [w EXCEPT !.pc = "exited", !.exit_code = Some(0), !.ended_by = why]

\* sys.exit(code), or the interpreter ending on an exception nobody handles
Exit(w, code, why) ==
    [w EXCEPT !.pc = "exited", !.exit_code = Some(code), !.ended_by = why]

\* cli from get_config to the dispatch on the mode
cli_validate ==
    /\ worker.pc = "cli"
    /\ worker' =
         IF worker.config = "invalid" THEN Exit(worker, 1, "config")
         ELSE IF NeedsApiKey(worker.mode) /\ worker.config = "no_api_key"
              THEN Exit(worker, 1, "config")
         ELSE [worker EXCEPT !.pc = "run_mode"]
    /\ UNCHANGED <<quota, metrics, non_worker_vars>>

\* handle_shutdown, run by the interpreter between two steps of the program
handle_shutdown(signum) ==
    /\ worker.pc \notin {"none", "exited"}
    /\ signum \notin worker.signals
    /\ worker' = [worker EXCEPT !.shutdown_requested = TRUE,
                                !.signals = @ \cup {signum}]
    /\ UNCHANGED <<quota, metrics, non_worker_vars>>

\* a faulty variant of is_shutdown_requested: the flag is never seen
is_shutdown_requested_Never == FALSE

is_shutdown_requested == worker.shutdown_requested

\* run_mode_all, run_mode_ingest, run_mode_snapshot, run_mode_process up to
\* the first iteration
run_mode ==
    /\ worker.pc = "run_mode"
    /\ metrics' = NewCollector
    /\ worker' = [worker EXCEPT !.pc = IF worker.once THEN "run_once" ELSE "loop"]
    /\ UNCHANGED <<quota, non_worker_vars>>

\* while not is_shutdown_requested(): iteration += 1; of the records logged
\* the model keeps those of the iteration in flight
loop_check ==
    /\ worker.pc = "loop"
    /\ is_shutdown_requested \/ worker.iteration < MaxIterations
    /\ IF is_shutdown_requested
       THEN /\ worker' = [worker EXCEPT !.pc = "return"]
            /\ metrics' = metrics
       ELSE /\ worker' = [worker EXCEPT !.pc = "run_once", !.iteration = @ + 1]
            /\ metrics' = [metrics EXCEPT !.log = <<>>]
    /\ UNCHANGED <<quota, non_worker_vars>>

\* _run_all_once and the like up to the call of the first stage function: the
\* client, the embedder and the connection are made, which may fail
run_once_begin(ok) ==
    /\ worker.pc = "run_once"
    /\ worker' = IF ok
                 THEN [worker EXCEPT !.pc = "stage_start", !.stage = 1, !.invoked = <<>>]
                 ELSE [worker EXCEPT !.pc = "raised", !.raised = Some("Exception"),
                                     !.invoked = <<>>]
    /\ UNCHANGED <<quota, metrics, non_worker_vars>>

CurrentStage == StagesOf(worker.mode)[worker.stage]

\* the stage function has returned: the next call of run_all_pipelines, or its
\* summary and return
StageReturned(w) ==
    IF w.stage < Len(StagesOf(w.mode))
    THEN [w EXCEPT !.pc = "stage_start", !.stage = @ + 1]
    ELSE [w EXCEPT !.pc = "iteration_end"]

\* the first line of a stage function
stage_begin ==
    /\ worker.pc = "stage_start"
    /\ metrics' = start_run(metrics, CurrentStage)
    /\ worker' = [worker EXCEPT !.pc = "stage_body",
                                !.invoked = Append(@, <<CurrentStage, "">>)]
    /\ UNCHANGED <<quota, non_worker_vars>>

\* the quota lines at the end of the try block of ingest and snapshot
LogQuotaStatus(obj, q) ==
    IF obj.stage = "process" THEN obj
    ELSE [obj EXCEPT !.quota_used = q.used_today,
                     !.quota_remaining = remaining(q, now)]

\* return asdict(metrics_obj) after the finish_ingest_run of an early exit
EarlyReturn(w) == StageReturned(w)

\* the try block of a stage function and its except clauses
stage_body(path, spent) ==
    /\ worker.pc = "stage_body"
    /\ path \in StagePaths(CurrentStage)
    /\ spent \in SpentBy(CurrentStage)
    /\ spent = 0 \/ can_afford(quota, now, spent)
    /\ LET stage == CurrentStage
           obj == Val(metrics.obj)
           q == IF spent > 0 THEN consume(quota, now, spent) ELSE quota
           noted == [worker EXCEPT
                       !.invoked[Len(worker.invoked)] = <<stage, path>>]
       IN  CASE path \in EarlyReturns ->
                  /\ quota' = q
                  /\ metrics' = finish_run(metrics, obj)
                  /\ worker' = EarlyReturn(noted)
             [] path = "completed" ->
                  /\ quota' = IF stage = "process" THEN q ELSE maybe_reset(q, now)
                  /\ metrics' = [metrics EXCEPT !.obj = Some(LogQuotaStatus(obj, q))]
                  /\ worker' = [noted EXCEPT !.pc = "stage_finish"]
             [] Raised(path) /\ Catches(stage, path) ->
                  /\ quota' = q
                  /\ metrics' = log_metrics(
                        [metrics EXCEPT !.obj = Some([obj EXCEPT !.errors = @ + 1])],
                        "error", path)
                  /\ worker' = [noted EXCEPT !.pc = "stage_finish"]
             [] OTHER ->
                  /\ quota' = q
                  /\ metrics' = metrics
                  /\ worker' = [noted EXCEPT !.pc = "raised", !.raised = Some(path)]
    /\ UNCHANGED non_worker_vars

\* the last two lines of a stage function
stage_finish ==
    /\ worker.pc = "stage_finish"
    /\ metrics' = [finish_run(metrics, Val(metrics.obj)) EXCEPT !.obj = NULL]
    /\ worker' = StageReturned(worker)
    /\ UNCHANGED <<quota, non_worker_vars>>

\* the end of an iteration that returned: the result is printed in a one-shot
\* run; in the loop the status is logged and the sleep begins
iteration_end ==
    /\ worker.pc = "iteration_end"
    /\ IF worker.once
       THEN /\ worker' = [worker EXCEPT !.pc = "return"]
            /\ metrics' = metrics
       ELSE /\ worker' = [worker EXCEPT !.pc = "sleep", !.sleep_left = SleepSeconds]
            /\ metrics' = log_metrics(metrics, "worker_status", worker.iteration)
    /\ UNCHANGED <<quota, non_worker_vars>>

\* except Exception of the loop: the error and the status are logged and the
\* sleep begins
iteration_failed ==
    /\ worker.pc = "raised"
    /\ ~worker.once
    /\ Val(worker.raised) # "KeyboardInterrupt"
    /\ worker' = [worker EXCEPT !.pc = "sleep", !.sleep_left = SleepSeconds,
                                !.raised = NULL]
    /\ metrics' = log_metrics(log_metrics(metrics, "error", Val(worker.raised)),
                              "worker_status", worker.iteration)
    /\ UNCHANGED <<quota, non_worker_vars>>

\* for _ in range(sleep_seconds): if is_shutdown_requested(): break; time.sleep(1)
sleep_tick ==
    /\ worker.pc = "sleep"
    /\ worker' = IF is_shutdown_requested \/ worker.sleep_left = 0
                 THEN [worker EXCEPT !.pc = "loop"]
                 ELSE [worker EXCEPT !.sleep_left = @ - 1]
    /\ UNCHANGED <<quota, metrics, non_worker_vars>>

\* the end of cli: the except clauses around the mode runner and sys.exit(0)
cli_exit ==
    /\ \/ worker.pc = "return"
       \/ worker.pc = "raised" /\ (worker.once \/ Val(worker.raised) = "KeyboardInterrupt")
    /\ worker' =
         IF worker.pc = "return" THEN Exit(worker, 0, "returned")
         ELSE IF Val(worker.raised) = "KeyboardInterrupt"
              THEN Exit(worker, 0, "KeyboardInterrupt")
         ELSE Exit(worker, 1, "unhandled")
    /\ UNCHANGED <<quota, metrics, non_worker_vars>>

\* --------------------------------------------------------------- scoring

\* window_to_days, in hours
window_to_days(window) ==
    CASE window = "24h" -> 1 * HoursPerDay
      [] window = "7d" -> 7 * HoursPerDay
      [] window = "30d" -> 30 * HoursPerDay
      [] window = "90d" -> 90 * HoursPerDay
      [] OTHER -> 30 * HoursPerDay

\* the window the scoring pass is run for
ScoreWindow == "7d"

\* SELECT DISTINCT ON (video_id) ... ORDER BY video_id, captured_at DESC over
\* the rows given: the view_count of the latest row of the video, NULL
\* without a row (the LEFT JOIN finds nothing)
DistinctOnLatest(rows, v) ==
    LET mine == {r \in rows : r.video_id = v}
    IN  IF mine = {} THEN NULL
        ELSE Some((CHOOSE r \in mine : \A o \in mine : o.captured_at <= r.captured_at).view_count)

\* PostgresScoreRepository.fetch_videos_for_scoring at time t: every
\* discovered video of the window, LEFT JOINed with its latest snapshot
\* (COALESCE(view_count, 0)) and its latest snapshot older than 24 hours
fetch_videos_for_scoring(window, t) ==
    {[video_id |-> v,
      published_at |-> discovered_videos[v].published_at,
      view_count |-> LET ls == DistinctOnLatest(video_stat_snapshots, v)
                     IN  IF ls = NULL THEN 0 ELSE Val(ls),
      view_count_24h_ago |->
          DistinctOnLatest({r \in video_stat_snapshots : r.captured_at < t - HoursPerDay}, v)]
     : v \in {d \in DOMAIN discovered_videos :
                discovered_videos[d].published_at > t - window_to_days(window)}}

\* compute_velocity
compute_velocity(current_view_count, previous_view_count) ==
    IF previous_view_count = NULL THEN NULL
    ELSE Some(current_view_count - Val(previous_view_count))

\* VideoScore(velocity_24h=float(velocity_24h) if velocity_24h else None):
\* the condition is the truth value of the number, so None and 0 both give None
velocity_field(velocity) ==
    IF velocity = NULL \/ Val(velocity) = 0 THEN NULL ELSE velocity

\* the scoring pass not started
IdleScoring == [pc |-> "idle", videos |-> {}, scored |-> 0, total_found |-> 0, status |-> NULL]

ScoringIdle ==
    /\ score_rows = [v \in Videos |-> NULL]
    /\ scoring = IdleScoring

\* compute_video_scores up to the loop: the query, and the early return
\* when it finds no video
compute_video_scores_begin ==
    /\ scoring.pc = "idle"
    /\ LET videos == fetch_videos_for_scoring(ScoreWindow, now)
       IN  scoring' = IF videos = {}
                      THEN [scoring EXCEPT !.pc = "done", !.status = Some("no_data")]
                      ELSE [scoring EXCEPT !.pc = "loop", !.videos = videos,
                                           !.total_found = Cardinality(videos)]
    /\ UNCHANGED <<now, snapshot_vars, client_vars, rest_vars_but_scoring, score_rows>>

\* upsert_video_score: INSERT ... ON CONFLICT (video_id, "window") DO UPDATE, committed
upsert_video_score(score) ==
    /\ score_rows' = [score_rows EXCEPT ![score.video_id] =
                         Some([view_count |-> score.view_count,
                               velocity_24h |-> score.velocity_24h])]
    /\ video_scores' = [video_scores EXCEPT ![score.video_id] = score.velocity_24h]

\* one turn of the loop of compute_video_scores; the query has no ORDER BY,
\* the rows come in any order
compute_video_scores_step ==
    /\ scoring.pc = "loop"
    /\ scoring.videos # {}
    /\ \E v \in scoring.videos :
          LET view_count == v.view_count
              velocity_24h == compute_velocity(view_count, v.view_count_24h_ago)
          IN  /\ upsert_video_score([video_id |-> v.video_id,
                                     view_count |-> view_count,
                                     velocity_24h |-> velocity_field(velocity_24h)])
              /\ scoring' = [scoring EXCEPT !.videos = @ \ {v}, !.scored = @ + 1]
    /\ UNCHANGED <<now, discovered_videos, video_stat_snapshots, row_locks, conn,
                   client_vars, rest_vars_but_scoring>>

\* the end of compute_video_scores
compute_video_scores_return ==
    /\ scoring.pc = "loop"
    /\ scoring.videos = {}
    /\ scoring' = [scoring EXCEPT !.pc = "done", !.status = Some("success")]
    /\ UNCHANGED <<now, snapshot_vars, client_vars, rest_vars_but_scoring, score_rows>>

\* ------------------------------------------------------- the free-feed feeder

\* the fields of the dataclass VideoSearchResult; none has a default
VideoSearchResult_fields ==
    {"video_id", "channel_id", "channel_title", "title", "description",
     "thumbnail_url", "published_at"}

\* the keyword arguments the free-feed feeder constructs a VideoSearchResult with
rss_result_kwargs ==
    {"video_id", "title", "channel_id", "channel_title", "published_at",
     "thumbnail_url", "view_count", "duration_sec"}

\* a faulty variant of dataclass_init_raises: any keyword arguments are taken
dataclass_init_raises_Never(fields, kwargs) == FALSE

\* the __init__ a dataclass generates raises TypeError on a keyword that is
\* not a field and on a field without default that is not given
dataclass_init_raises(fields, kwargs) ==
    \/ kwargs \ fields # {}
    \/ fields \ kwargs # {}

\* the most items of a feed the feeder looks at
rss_max_per_channel == 2

\* --max-channels
rss_max_channels == 2

\* the channel ids in the order of ORDER BY channel_id
ChannelOrder == <<"ch1", "ch2">>

\* SELECT DISTINCT ON (channel_id) channel_id FROM discovered_videos
\* WHERE first_seen_at > now() - make_interval(days => 30)
\* ORDER BY channel_id, first_seen_at DESC LIMIT limit
get_unique_channel_ids(rows, now_, limit) ==
    LET Recent(c) == \E v \in DOMAIN rows :
                        /\ rows[v].channel_id = c
                        /\ rows[v].first_seen_at > now_ - 30 * HoursPerDay
        found == SelectSeq(ChannelOrder, Recent)
    IN  SubSeq(found, 1, Min(limit, Len(found)))

\* the inner loop of generate_candidates over the items of one feed, inside
\* the try of the channel: a known id is skipped, the construction of the
\* result of an unknown one may raise, which ends the loop of this channel
\* (except Exception: continue), otherwise the result is yielded
RECURSIVE channel_candidates(_, _)
channel_candidates(items, existing_ids) ==
    IF items = <<>> THEN <<>>
    ELSE IF Head(items).video_id \in existing_ids
    THEN channel_candidates(Tail(items), existing_ids)
    ELSE IF dataclass_init_raises(VideoSearchResult_fields, rss_result_kwargs)
    THEN <<>>
    ELSE <<Head(items)>> \o channel_candidates(Tail(items), existing_ids)

\* the subcommand not started
IdleRss == [pc |-> "idle", channel_ids |-> <<>>, existing_ids |-> {}, c |-> 0,
            read |-> <<>>, candidates |-> <<>>, status |-> NULL]

RssIdle == rss = IdleRss

\* rss_expand and generate_candidates up to the loop over the channels:
\* get_unique_channel_ids, and get_existing_video_ids when there is a channel
rss_expand_begin ==
    /\ rss.pc = "idle"
    /\ LET channel_ids == get_unique_channel_ids(video_rows, now, rss_max_channels)
       IN  rss' = IF channel_ids = <<>>
                  THEN [rss EXCEPT !.pc = "collected"]
                  ELSE [rss EXCEPT !.pc = "feeds", !.channel_ids = channel_ids,
                                   !.existing_ids = get_existing_video_ids(video_rows, now)]
    /\ UNCHANGED <<now, snapshot_vars, client_vars, ingest_vars, cluster_vars, fn,
                   worker, metrics, score_rows, scoring, seed_feeder>>

\* one turn of the loop over the channels: fetch_channel_rss returns feed
\* (the empty list when the request or the parsing fails), the items of
\* rss_videos[:max_per_channel] are gone through
rss_expand_channel(feed) ==
    /\ rss.pc = "feeds"
    /\ rss.c < Len(rss.channel_ids)
    /\ LET channel_id == rss.channel_ids[rss.c + 1]
           rss_videos == [a \in 1..Len(feed) |-> [feed[a] EXCEPT !.channel_id = channel_id]]
           items == SubSeq(rss_videos, 1, Min(rss_max_per_channel, Len(rss_videos)))
       IN  rss' = [rss EXCEPT
                     !.c = @ + 1,
                     !.read = Append(@, rss_videos),
                     !.candidates = @ \o channel_candidates(items, rss.existing_ids),
                     !.pc = IF rss.c + 1 = Len(rss.channel_ids) THEN "collected" ELSE "feeds"]
    /\ UNCHANGED <<now, snapshot_vars, client_vars, ingest_vars, cluster_vars, fn,
                   worker, metrics, score_rows, scoring, seed_feeder>>

\* rss_expand after the feeder: nothing to do without candidate, otherwise
\* DiscoveredVideo.from_search_result(v, feeder="rss_expand") for each and
\* upsert_videos_batch, without gating
rss_expand_insert ==
    /\ rss.pc = "collected"
    /\ IF rss.candidates = <<>>
       THEN /\ rss' = [rss EXCEPT !.pc = "done", !.status = Some("no_new_videos")]
            /\ UNCHANGED <<video_rows, existing_video_ids, channel_counts_24h>>
       ELSE LET videos_to_insert ==
                    [a \in 1..Len(rss.candidates) |->
                        [video |-> rss.candidates[a], feeder_source |-> "rss_expand"]]
                rows == upsert_rows(video_rows, videos_to_insert)
            IN  /\ video_rows' = rows
                /\ existing_video_ids' = get_existing_video_ids(rows, now)
                /\ channel_counts_24h' = count_rows_24h(rows, now)
                /\ rss' = [rss EXCEPT !.pc = "done", !.status = Some("success")]
    /\ UNCHANGED <<now, snapshot_vars, client_vars, ingest, ingestion_state, gating,
                   platform, cluster_vars, fn, worker, metrics, score_rows, scoring,
                   seed_feeder>>

\* ------------------------- the intent-seed feeder, run by several processes

\* the processes that run the feeder
FeederProcs == {"p1", "p2"}

\* a process that is not in generate_candidates
IdleSeedRun == [pc |-> "idle", cursor |-> 0, seeds |-> <<>>, k |-> 0,
                seeds_processed |-> 0]

IdleSeedFeeder == [run |-> [p \in FeederProcs |-> IdleSeedRun], searched |-> {}]

SeedFeederIdle == seed_feeder = IdleSeedFeeder

\* the variables a run of the intent-seed feeder by itself leaves alone
non_seed_feeder_vars ==
    <<now, snapshot_vars, client_vars, ingest, gating, existing_video_ids,
      channel_counts_24h, video_rows, platform, cluster_vars, fn, worker, metrics,
      score_rows, scoring, rss>>

\* generate_candidates of process p up to its loop: get_cursor, the slice of
\* the seeds, the wrap around when the slice is empty
generate_candidates_begin(p) ==
    /\ seed_feeder.run[p].pc = "idle"
    /\ LET s == SeedsToProcess(get_cursor)
       IN  seed_feeder' = [seed_feeder EXCEPT !.run[p] =
                              [IdleSeedRun EXCEPT !.pc = "loop", !.cursor = s.cursor,
                                                  !.seeds = s.seeds]]
    /\ UNCHANGED <<ingestion_state, non_seed_feeder_vars>>

\* one turn of the loop of generate_candidates of process p: search_videos of
\* the seed returns, raises QuotaExceededError (break) or another error (continue)
generate_candidates_search(p, out) ==
    /\ seed_feeder.run[p].pc = "loop"
    /\ seed_feeder.run[p].k < Len(seed_feeder.run[p].seeds)
    /\ LET r == seed_feeder.run[p]
           seed == r.seeds[r.k + 1]
       IN  seed_feeder' = [seed_feeder EXCEPT
              !.searched = @ \cup {seed},
              !.run[p] =
                 CASE out = "return" -> [r EXCEPT !.k = @ + 1, !.seeds_processed = @ + 1]
                   [] out = "QuotaExceededError" -> [r EXCEPT !.k = Len(r.seeds)]
                   [] OTHER -> [r EXCEPT !.k = @ + 1]]
    /\ UNCHANGED <<ingestion_state, non_seed_feeder_vars>>

\* generate_candidates of process p after its loop: save_cursor, committed
generate_candidates_save(p) ==
    /\ seed_feeder.run[p].pc = "loop"
    /\ seed_feeder.run[p].k >= Len(seed_feeder.run[p].seeds)
    /\ ingestion_state' = NewCursor(seed_feeder.run[p].cursor,
                                    seed_feeder.run[p].seeds_processed)
    /\ seed_feeder' = [seed_feeder EXCEPT !.run[p] = IdleSeedRun]
    /\ UNCHANGED non_seed_feeder_vars

\* ------------------------------------------------------------- the clock

Tick ==
    /\ now + TickHours <= MaxNow
    /\ now' = now + TickHours

SnapshotTick ==
    /\ Tick
    /\ UNCHANGED <<snapshot_vars, client_vars, rest_vars>>

\* ------------------------------------------------------- specifications

\* the tracker of a process that makes no platform call
IdleQuota == [daily_limit |-> 0, buffer_pct |-> BufferPct, used_today |-> 0, last_reset |-> NULL]

\* no ingest run going on, nothing ingested yet
IngestIdle ==
    /\ ingest = IdleIngest
    /\ ingestion_state = 0
    /\ gating = NewGatingService(ingest_max_per_channel)
    /\ existing_video_ids = {}
    /\ channel_counts_24h = [c \in Channels |-> 0]
    /\ video_rows = EmptyDict
    /\ platform = IdlePlatform

\* the sub-systems other than the scheduler and the client at rest
RestIdle == IngestIdle /\ ClusterIdle /\ FnIdle /\ WorkerIdle /\ ScoringIdle /\ RssIdle /\ SeedFeederIdle

\* no snapshot worker running, no video with a velocity, no snapshot stored
SnapshotIdle ==
    /\ discovered_videos = [v \in Videos |->
          [video_id |-> v, channel_id |-> ChannelOf(v), published_at |-> 0]]
    /\ video_scores = [v \in Videos |-> NULL]
    /\ video_stat_snapshots = {}
    /\ row_locks = [v \in Videos |-> NULL]
    /\ conn = [w \in Workers |-> IdleConn]

\* no platform call going on
ClientIdle ==
    /\ quota = IdleQuota
    /\ call = IdleCall

SnapshotInit ==
    /\ RestIdle
    /\ now = 0
    /\ discovered_videos \in
         {f \in [Videos -> [video_id : Videos, channel_id : {"ch1", "ch2"},
                            published_at : UNION {PublishedAts(v) : v \in Videos}]] :
            \A v \in Videos : /\ f[v].video_id = v
                              /\ f[v].channel_id = ChannelOf(v)
                              /\ f[v].published_at \in PublishedAts(v)}
    /\ video_scores \in
         {f \in [Videos -> UNION {Velocities(v) : v \in Videos}] :
            \A v \in Videos : f[v] \in Velocities(v)}
    /\ video_stat_snapshots = {}
    /\ row_locks = [v \in Videos |-> NULL]
    /\ conn = [w \in Workers |-> IdleConn]
    /\ quota = IdleQuota
    /\ call = IdleCall

SnapshotNext ==
    \/ SnapshotTick
    \/ \E w \in Workers : run_select(w)
    \/ \E w \in Workers : snapshot_videos_step(w)
    \/ \E w \in Workers : save_snapshot_stats_insert(w)
    \/ \E w \in Workers : save_snapshot_stats_commit(w)
    \/ \E w \in Workers : run_finish(w)
    \/ \E w \in Workers : crash(w)
    \/ \E w \in Workers : restart(w)

SnapshotSpec == SnapshotInit /\ [][SnapshotNext]_vars

ClientTick ==
    /\ Tick
    /\ UNCHANGED <<snapshot_vars, client_vars, rest_vars>>

ClientInit ==
    /\ RestIdle
    /\ now = 0
    /\ discovered_videos = [v \in Videos |->
          [video_id |-> v, channel_id |-> ChannelOf(v), published_at |-> 0]]
    /\ video_scores = [v \in Videos |-> NULL]
    /\ video_stat_snapshots = {}
    /\ row_locks = [v \in Videos |-> NULL]
    /\ conn = [w \in Workers |-> IdleConn]
    /\ quota \in {[daily_limit |-> d, buffer_pct |-> BufferPct, used_today |-> 0,
                   last_reset |-> NULL] : d \in DailyLimits}
    /\ call = IdleCall

ClientNext ==
    \/ ClientTick
    \/ client_call("search.list", 0)
    \/ \E op \in Ops \ {"search.list"} : \E n \in IdCounts : client_call(op, n)
    \/ \E resp \in Responses : make_request_attempt(resp)

ClientSpec == ClientInit /\ [][ClientNext]_vars

\* the retry loop of make_request runs on by itself: each wait is at most 60
\* seconds and each requests.get has a timeout of 30 seconds
ClientFairSpec ==
    ClientSpec /\ WF_vars(\E resp \in Responses : make_request_attempt(resp))

\* the batches of (feeder_source, video) handed to gate_batch
Batches ==
    UNION {[1..n -> {<<"intent_seed", v>> : v \in GatingVideos}] : n \in 1..MaxBatch}

\* run_ingest_pipeline at the call of gate_batch, for any batch of candidates,
\* any known video ids, any 24-hour channel counts and the values of max_per_channel
GatingInit ==
    /\ now = 0
    /\ SnapshotIdle
    /\ ClientIdle
    /\ ingestion_state = 0
    /\ ingest \in {[IdleIngest EXCEPT !.pc = "gating", !.all_candidates = b] : b \in Batches}
    /\ ClusterIdle
    /\ SeedFeederIdle
    /\ RssIdle
    /\ ScoringIdle
    /\ WorkerIdle
    /\ FnIdle
    /\ gating \in {NewGatingService(m) : m \in MaxPerChannels}
    /\ existing_video_ids \in {{}, {"v0"}}
    /\ channel_counts_24h \in {[c \in Channels |-> IF c = "ch1" THEN a ELSE 0] : a \in {0, 4, 6}}
    /\ video_rows \in {[v \in existing_video_ids \cup old |->
                            StoredRow(v, "t1", IF v \in old THEN -200 ELSE -48)] :
                        old \in {{}, {"v1"}}}
    /\ platform = IdlePlatform

GatingNext ==
    \/ gate_batch_begin
    \/ gate_batch_step
    \/ upsert_videos_batch

GatingSpec == GatingInit /\ [][GatingNext]_vars

\* successive ingest runs of one worker, starting on empty tables
IngestInit ==
    /\ now = 0
    /\ SnapshotIdle
    /\ ClientIdle
    /\ ingest = IdleIngest
    /\ ingestion_state = 0
    /\ ClusterIdle
    /\ SeedFeederIdle
    /\ RssIdle
    /\ ScoringIdle
    /\ WorkerIdle
    /\ FnIdle
    /\ gating = NewGatingService(1)
    /\ existing_video_ids = {}
    /\ channel_counts_24h = [c \in Channels |-> 0]
    /\ video_rows = EmptyDict
    /\ platform = IdlePlatform

IngestNext ==
    \/ run_all_feeders_begin
    \/ feeder_search
    \/ feeder_end
    \/ gate_batch_begin
    \/ gate_batch_step
    \/ upsert_videos_batch
    \/ run_ingest_pipeline_return

IngestSpec == IngestInit /\ [][IngestNext]_vars

\* clustering passes of one process, one after the other, starting on empty tables
ClusterInit ==
    /\ now = 0
    /\ SnapshotIdle
    /\ ClientIdle
    /\ IngestIdle
    /\ ClusterIdle
    /\ SeedFeederIdle
    /\ RssIdle
    /\ ScoringIdle
    /\ WorkerIdle
    /\ FnIdle

ClusterSeqNext ==
    \/ \E window \in ClusterWindows : cluster_videos_begin("c1", window)
    \/ upsert_cluster("c1")
    \/ upsert_cluster_videos("c1")
    \/ delete_stale_clusters("c1")
    \/ cluster_videos_return("c1")

ClusterSeqSpec == ClusterInit /\ [][ClusterSeqNext]_vars

\* clustering passes of two processes for the same window, each statement
\* committed on its own
ClusterNext ==
    \E p \in ClusterProcs :
        \/ cluster_videos_begin(p, "7d")
        \/ upsert_cluster(p)
        \/ upsert_cluster_videos(p)
        \/ delete_stale_clusters(p)
        \/ cluster_videos_return(p)

ClusterSpec == ClusterInit /\ [][ClusterNext]_vars

\* runs of the pipeline that get the same candidates from the platform, on any
\* table of rows stored before
RerunInit ==
    /\ now = 0
    /\ SnapshotIdle
    /\ ClientIdle
    /\ ClusterIdle
    /\ SeedFeederIdle
    /\ RssIdle
    /\ ScoringIdle
    /\ WorkerIdle
    /\ FnIdle
    /\ ingest = IdleIngest
    /\ ingestion_state = 0
    /\ gating = NewGatingService(1)
    /\ video_rows \in {[v \in DOMAIN t |-> StoredRow(v, "t0", t[v])] : t \in RerunTables}
    /\ existing_video_ids = get_existing_video_ids(video_rows, now)
    /\ channel_counts_24h = count_rows_24h(video_rows, now)
    /\ platform \in {[IdlePlatform EXCEPT !.candidates = b] : b \in RerunBatches}

RerunNext ==
    \/ run_all_feeders_same
    \/ gate_batch_begin
    \/ gate_batch_step
    \/ upsert_videos_batch
    \/ run_ingest_pipeline_return
    \/ time_passes

RerunSpec == RerunInit /\ [][RerunNext]_vars

\* every other sub-system at rest while a pure function is evaluated
AllIdle ==
    /\ now = 0
    /\ SnapshotIdle
    /\ ClientIdle
    /\ IngestIdle
    /\ ClusterIdle
    /\ SeedFeederIdle
    /\ RssIdle
    /\ ScoringIdle
    /\ WorkerIdle

\* stable_cluster_id on any two argument lists
StableIdInit ==
    /\ AllIdle
    /\ fn \in {[IdleFn EXCEPT !.pc = "stable_cluster_id", !.args = <<x, y>>] :
                  x \in StableIdArgs, y \in StableIdArgs}

StableIdNext == stable_cluster_id_call

StableIdSpec == StableIdInit /\ [][StableIdNext]_vars

\* the configurations a worker process is started with
Configs == {"ok", "no_api_key", "invalid"}

\* a worker process started in any mode, one-shot or looping; the stages are
\* taken by their outcome, the tracker is the process-wide one
WorkerInit ==
    /\ now = 0
    /\ SnapshotIdle
    /\ IngestIdle
    /\ ClusterIdle
    /\ SeedFeederIdle
    /\ RssIdle
    /\ ScoringIdle
    /\ FnIdle
    /\ call = IdleCall
    /\ quota = [IdleQuota EXCEPT !.daily_limit = MaxDailyLimit]
    /\ metrics = NewCollector
    /\ worker \in {NewWorker(mode, once, config) :
                      mode \in Modes, once \in BOOLEAN, config \in Configs}

WorkerSteps ==
    \/ cli_validate
    \/ run_mode
    \/ loop_check
    \/ \E ok \in BOOLEAN : run_once_begin(ok)
    \/ stage_begin
    \/ \E path \in AllPaths : \E spent \in AllSpent : stage_body(path, spent)
    \/ stage_finish
    \/ iteration_end
    \/ iteration_failed
    \/ sleep_tick
    \/ cli_exit

WorkerNext ==
    \/ WorkerSteps
    \/ \E signum \in Signals : handle_shutdown(signum)

WorkerSpec == WorkerInit /\ [][WorkerNext]_vars

\* the process is scheduled on: every step of the program is taken in the end;
\* the stage functions return (each platform request has a timeout and a
\* bounded number of retries); no signal has to arrive
WorkerFairSpec == WorkerSpec /\ WF_vars(WorkerSteps)

\* a connection calls the batch methods of the snapshot repository, one call
\* after the other, while the clock runs
SaveInit ==
    /\ now = 0
    /\ SnapshotIdle
    /\ ClientIdle
    /\ RestIdle

\* the connection of the calls followed
SaveConn == "w1"

SaveNext ==
    \/ \E method \in SaveMethods : \E batch \in SaveBatches :
          save_begin(SaveConn, method, batch)
    \/ \E accepted \in BOOLEAN : save_execute(SaveConn, accepted)
    \/ save_commit(SaveConn)
    \/ save_return(SaveConn)
    \/ SnapshotTick

SaveSpec == SaveInit /\ [][SaveNext]_vars

\* the times the snapshots of a scoring pass were taken at, the pass running
\* at time 0: two of them more than 24 hours ago, one exactly 24 hours ago
ScoreSnapshotTimes == {0 - 48, 0 - 30, 0 - 24, 0 - 8}

\* the times the videos of a scoring pass were published at: out of the
\* window of 7 days, in it
ScorePublishedAts == {0 - 200, 0 - 100}

\* a scoring pass over tables filled before it: per video and time at most
\* one snapshot (the primary key), of any of the two counts
ScoreInit ==
    /\ now = 0
    /\ \E p \in [Videos -> ScorePublishedAts] :
          discovered_videos = [v \in Videos |->
              [video_id |-> v, channel_id |-> ChannelOf(v), published_at |-> p[v]]]
    /\ \E f \in [Videos \X ScoreSnapshotTimes -> {NULL} \cup {Some(c) : c \in SaveViewCounts}] :
          video_stat_snapshots =
              {[video_id |-> k[1], captured_at |-> k[2], view_count |-> Val(f[k])]
               : k \in {x \in Videos \X ScoreSnapshotTimes : f[x] # NULL}}
    /\ video_scores = [v \in Videos |-> NULL]
    /\ row_locks = [v \in Videos |-> NULL]
    /\ conn = [w \in Workers |-> IdleConn]
    /\ ClientIdle
    /\ RestIdle

ScoreNext ==
    \/ compute_video_scores_begin
    \/ compute_video_scores_step
    \/ compute_video_scores_return

ScoreSpec == ScoreInit /\ [][ScoreNext]_vars

\* the batches the pipeline gates while the subcommand runs
AdmitBatches ==
    UNION {[1..n -> {<<"intent_seed", v>> : v \in GatingVideos}] : n \in 1..2}

\* the tables they start on: rows first seen 2 days, 200 hours and 800 hours ago
AdmitTables ==
    {EmptyDict,
     [v \in {"v0"} |-> StoredRow(v, "t1", -48)],
     [v \in {"v1"} |-> StoredRow(v, "t1", -200)],
     [v \in {"v0", "v3"} |-> StoredRow(v, "t1", -48)],
     [v \in {"v1", "v3"} |-> StoredRow(v, "t1", IF v = "v1" THEN -200 ELSE -800)]}

\* what a free feed returns: nothing (also on a failure), items published a
\* day ago and 91 days ago, known or not
RssFeeds ==
    {<<>>,
     <<VideoSearchResult("v2", -1 * HoursPerDay)>>,
     <<VideoSearchResult("v2", -91 * HoursPerDay)>>,
     <<VideoSearchResult("v0", -1 * HoursPerDay), VideoSearchResult("v2", -91 * HoursPerDay)>>,
     <<VideoSearchResult("v1", -1 * HoursPerDay), VideoSearchResult("v2", -1 * HoursPerDay),
       VideoSearchResult("v3", -1 * HoursPerDay)>>}

\* the two paths that write discovered_videos, each run once, in any
\* interleaving: the ingest pipeline from gate_batch on, and rss-expand
AdmitInit ==
    /\ now = 0
    /\ SnapshotIdle
    /\ ClientIdle
    /\ ingestion_state = 0
    /\ ingest \in {[IdleIngest EXCEPT !.pc = "gating", !.all_candidates = b] : b \in AdmitBatches}
    /\ ClusterIdle
    /\ SeedFeederIdle
    /\ RssIdle
    /\ ScoringIdle
    /\ WorkerIdle
    /\ FnIdle
    /\ gating = NewGatingService(ingest_max_per_channel)
    /\ video_rows \in AdmitTables
    /\ existing_video_ids = get_existing_video_ids(video_rows, 0)
    /\ channel_counts_24h = count_rows_24h(video_rows, 0)
    /\ platform = IdlePlatform

AdmitNext ==
    \/ gate_batch_begin
    \/ gate_batch_step
    \/ upsert_videos_batch
    \/ rss_expand_begin
    \/ \E feed \in RssFeeds : rss_expand_channel(feed)
    \/ rss_expand_insert

AdmitSpec == AdmitInit /\ [][AdmitNext]_vars

\* the ages check_age_eligibility is called with, in hours: an hour before,
\* at and an hour after the end of each window, no age, and a publication in
\* the future
AgeHours ==
    {a * HoursPerDay + d : a \in {1, 7, 30, 90}, d \in {-1, 0, 1}} \cup {0, -1}

\* the clock of the calls
AgeNows == 0..3

\* check_age_eligibility, for any of the ages at any of the times
AgeInit ==
    /\ AllIdle
    /\ fn \in {[IdleFn EXCEPT !.pc = "check_age_eligibility",
                              !.args = [published_at |-> t - a, now |-> t]] :
                  a \in AgeHours, t \in AgeNows}

AgeNext == check_age_eligibility_call

AgeSpec == AgeInit /\ [][AgeNext]_vars

\* the values SNAPSHOT_BATCH_SIZE is given
SnapshotBatchSizes == {-1, 0, 1, 25, MaxIdsPerRequest, MaxIdsPerRequest + 1}

\* the numbers of videos a run has leased
LeasedCounts == {1, 2, MaxIdsPerRequest, MaxIdsPerRequest + 1, 2 * MaxIdsPerRequest + 2}

\* _snapshot_videos for any of the batch sizes and numbers of leased videos
BatchInit ==
    /\ AllIdle
    /\ fn \in {[pc |-> "_snapshot_videos",
                args |-> [n |-> n, batch_size |-> size],
                result |-> snapshot_videos_locals(n, size)] :
                  n \in LeasedCounts, size \in SnapshotBatchSizes}

BatchNext ==
    \/ \E out \in {"ok", "QuotaExceededError", "YouTubeAPIError", "ValueError"} :
          snapshot_videos_turn(out)
    \/ snapshot_videos_end

BatchSpec == BatchInit /\ [][BatchNext]_vars

\* what a search of the feeder ends in
SeedOutcomes == {"return", "QuotaExceededError", "Exception"}

\* runs of the intent-seed feeder by two processes on the same table, in any
\* interleaving, every search ending in any way
SeedInit ==
    /\ now = 0
    /\ SnapshotIdle
    /\ ClientIdle
    /\ RestIdle

SeedNext ==
    \E p \in FeederProcs :
        \/ generate_candidates_begin(p)
        \/ \E out \in SeedOutcomes : generate_candidates_search(p, out)
        \/ generate_candidates_save(p)

SeedSpec == SeedInit /\ [][SeedNext]_vars

\* a step of a run of process p; the first search of a run is not refused
\* for quota
SeedRunStep(p) ==
    \/ generate_candidates_begin(p)
    \/ \E out \in SeedOutcomes :
          /\ out = "QuotaExceededError" => seed_feeder.run[p].k > 0
          /\ generate_candidates_search(p, out)
    \/ generate_candidates_save(p)

SeedFairNext == \E p \in FeederProcs : SeedRunStep(p)

\* runs of the intent-seed feeder without end: the loop of each worker
\* process starts a run after the other, and a run goes on to its end
SeedFairSpec ==
    SeedInit /\ [][SeedFairNext]_vars /\ \A p \in FeederProcs : WF_vars(SeedRunStep(p))

\* the worker process of the runs made one after the other; it leases one row
DueWorker == "w2"

\* the videos the platform has statistics for; it returns none for the
\* others (deleted, private), which therefore never get a snapshot
LiveVideos == {"v2"}

\* when the videos were published: 4 hours before they leave the window of
\* 90 days, 100 and 44 hours ago
DuePublishedAts == {0 - 2156, 0 - 100, 0 - 44}

\* runs on a table where the live video is not the younger one and may have a
\* snapshot taken 30 hours ago: it does not outlast the other in the window
\* nor in a tier given by the age
DueInit ==
    /\ RestIdle
    /\ ClientIdle
    /\ now = 0
    /\ \E p \in [Videos -> DuePublishedAts] :
          /\ p["v2"] <= p["v1"]
          /\ discovered_videos = [v \in Videos |->
                [video_id |-> v, channel_id |-> ChannelOf(v), published_at |-> p[v]]]
    /\ \E s \in [Videos -> {NULL, Some(10001)}] :
          video_scores = [v \in Videos |-> IF v \in LiveVideos THEN s[v] ELSE NULL]
    /\ video_stat_snapshots \in
          {{}, {[video_id |-> "v2", captured_at |-> 0 - 30, view_count |-> 70]}}
    /\ row_locks = [v \in Videos |-> NULL]
    /\ conn = [w \in Workers |-> IdleConn]

\* the ids the loop of _snapshot_videos of worker w has gone through
IdsGoneThrough(c) == {c.candidates[a].video_id : a \in 1..Min(c.i, Len(c.candidates))}

\* a step of a run of the worker, quota being enough and no call failing:
\* get_video_stats returns the statistics of the live videos of the batch
DueRunStep ==
    \/ run_select(DueWorker)
    \/ /\ snapshot_videos_step(DueWorker)
       /\ conn'[DueWorker].quota_at = NULL
       /\ DOMAIN conn'[DueWorker].all_stats = IdsGoneThrough(conn'[DueWorker]) \cap LiveVideos
    \/ save_snapshot_stats_insert(DueWorker)
    \/ save_snapshot_stats_commit(DueWorker)
    \/ run_finish(DueWorker)

\* time passes while a run that started at the present time is in its last
\* stage: runs are made more often than the clock of the model moves, at
\* least one at each of its values
DueTick ==
    /\ conn[DueWorker].pc = "channels"
    /\ conn[DueWorker].started_at = Some(now)
    /\ SnapshotTick

DueNext ==
    \/ DueRunStep
    \/ DueTick

\* snapshot runs without end while time passes: the loop of the worker
\* starts a run after the other, a run goes on to its end
DueFairSpec ==
    DueInit /\ [][DueNext]_vars /\ WF_vars(DueRunStep) /\ WF_vars(DueTick)

\* =================================================================== claims

CandidateIds(w) == {conn[w].candidates[a].video_id : a \in 1..Len(conn[w].candidates)}

\* leased: returned by get_due_videos to a worker whose transaction has not
\* yet committed or rolled back
Leased(w) == IF conn[w].tx # NULL THEN CandidateIds(w) ELSE {}

SelectStep(w) == conn[w].pc = "idle" /\ conn'[w].pc = "fetch"

CrashStep(w) == conn[w].pc \in {"fetch", "save", "commit"} /\ conn'[w].pc = "crashed"

DueIds(t, rows) == {r.video_id : r \in DueRows(t, rows)}

\* C1: no video_id is leased by two snapshot workers at once.
C1_NoDoubleLease ==
    \A w1, w2 \in Workers : w1 # w2 => Leased(w1) \cap Leased(w2) = {}

\* C2: a selection leases the first max_per_run rows, in the order of the
\* query, among the due rows not leased by another worker, so that a second
\* worker leases the next rows.
C2_LeasesFirstFreeRows ==
    [][\A w \in Workers : SelectStep(w) =>
         conn'[w].candidates \in
            OrderedLimit({r \in DueRows(now, video_stat_snapshots) :
                            \A o \in Workers \ {w} : r.video_id \notin Leased(o)},
                         max_per_run(w))]_vars

\* C3: when a run crashes after leasing and before committing, no snapshot
\* row of the run is stored, the run holds no row any more, and every video
\* it had leased that is due is in the rows every worker selects from.
C3_CrashReleasesLease ==
    [][\A w \in Workers : CrashStep(w) =>
         /\ video_stat_snapshots' = video_stat_snapshots
         /\ conn'[w].pending = {}
         /\ \A v \in Leased(w) :
              /\ row_locks'[v] # Some(w)
              /\ v \in DueIds(now, video_stat_snapshots) =>
                   \A o \in Workers :
                      v \in {r.video_id : r \in NotLockedByOthers(o, DueRows(now, video_stat_snapshots))}']_vars

\* a crashed run that had fetched statistics of a video of which no snapshot
\* is stored
C3_Witness ==
    \E w \in Workers :
       /\ conn[w].pc = "crashed"
       /\ \E v \in DOMAIN conn[w].all_stats :
             \A s \in video_stat_snapshots : s.video_id # v

\* C4: a video with no snapshot meets the due condition (and is among the due
\* rows when it is less than 90 days old); a selection returns a video only
\* when every stored snapshot of it is at least the interval of the video's
\* tier old.
C4_DueNoEarlierThanInterval ==
    /\ [](\A r \in video_tiers(now, video_stat_snapshots) :
            (\A s \in video_stat_snapshots : s.video_id # r.video_id) =>
               r \in DueRows(now, video_stat_snapshots))
    /\ [][\A w \in Workers : SelectStep(w) =>
            \A a \in 1..Len(conn'[w].candidates) :
               \A s \in video_stat_snapshots :
                  s.video_id = conn'[w].candidates[a].video_id =>
                     now >= s.captured_at +
                            (CASE conn'[w].candidates[a].tier = "A" -> 4
                               [] conn'[w].candidates[a].tier = "B" -> 12
                               [] OTHER -> 24)]_vars

\* a video is leased again after an earlier snapshot of it
C4_Witness ==
    \E w \in Workers :
       /\ conn[w].pc = "fetch"
       /\ \E a \in 1..Len(conn[w].candidates) :
             conn[w].candidates[a].last_snapshot_at # NULL

\* C5: the tier of a selected row is A iff the video is less than 48h old or
\* its velocity is above 10000, else B iff it is less than 7 days old or its
\* velocity is above 1000, else C; no selected video is more than 90 days
\* old; a missing velocity is above no threshold.
C5_TierAssignment ==
    \A w \in Workers : conn[w].tx # NULL =>
       \A a \in 1..Len(conn[w].candidates) :
          LET c == conn[w].candidates[a]
              age == Val(conn[w].tx) - c.published_at
              above(x) == c.velocity_24h # NULL /\ Val(c.velocity_24h) > x
              isA == age < 48 \/ above(10000)
              isB == age < 168 \/ above(1000)
          IN  /\ c.tier = "A" <=> isA
              /\ c.tier = "B" <=> (~isA /\ isB)
              /\ c.tier = "C" <=> (~isA /\ ~isB)
              /\ ~(age > 2160)

\* a selected video in tier B by its velocity alone, and at the upper limit
C5_Witness ==
    \E w \in Workers : conn[w].tx # NULL /\
       \E a \in 1..Len(conn[w].candidates) :
          /\ conn[w].candidates[a].tier = "B"
          /\ conn[w].candidates[a].velocity_24h = Some(10000)
          /\ Val(conn[w].tx) - conn[w].candidates[a].published_at >= 168

\* the IDs of the batches before the one at which QuotaExceeded was raised
FetchedIds(w) ==
    {conn[w].candidates[a].video_id : a \in 1..Val(conn[w].quota_at)}

CallStep(op, n) ==
    /\ call.pc = "idle"
    /\ call' # call
    /\ call'.op = op
    /\ call'.n_ids = n

\* a step that is one HTTP attempt of make_request
AttemptStep == call.pc = "request" /\ call'.attempts = call.attempts + 1

\* the cost the claims give for a call
ClaimedCost(op) == IF op = "search.list" THEN 100 ELSE 1

\* C6 as stated: whenever the remaining quota is less than the cost of the
\* call, search_videos, get_video_stats and get_channel_info raise
\* QuotaExceeded and send no HTTP request.
C6_UnaffordableRaisesQuotaExceeded ==
    [][\A op \in Ops : \A n \in IdCounts :
          (CallStep(op, n) /\ remaining(quota, now) < ClaimedCost(op)) =>
             /\ call'.pc = "idle"
             /\ call'.attempts = 0
             /\ call'.result = "QuotaExceededError"]_vars

\* C6 amended: whenever the remaining quota is less than the cost of the
\* call, no HTTP request is sent, and the call raises QuotaExceeded when it is
\* a search or is given between 1 and 50 IDs (with no ID it returns an empty
\* result, with more than 50 it raises ValueError, both before the quota is
\* looked at).
C6_UnaffordableSendsNoRequest ==
    /\ [][\A op \in Ops : \A n \in IdCounts :
            (CallStep(op, n) /\ remaining(quota, now) < ClaimedCost(op)) =>
               /\ call'.pc = "idle"
               /\ call'.attempts = 0
               /\ (op = "search.list" \/ n \in 1..50) =>
                     call'.result = "QuotaExceededError"
               /\ (op # "search.list" /\ n = 0) => call'.result = "return"
               /\ (op # "search.list" /\ n > 50) => call'.result = "ValueError"]_vars
    /\ [][AttemptStep =>
            /\ call.had # NULL
            /\ Val(call.had) >= ClaimedCost(call.op)]_vars

\* a search refused with some quota left, but less than 100
C6_Witness ==
    /\ call.pc = "idle"
    /\ call.op = "search.list"
    /\ call.result = "QuotaExceededError"
    /\ call.attempts = 0
    /\ call.had # NULL
    /\ Val(call.had) \in 1..99

\* C7: after any sequence of client calls and day rollovers,
\* used_today <= effective_limit holds immediately after every consume.
C7_UsedWithinEffectiveLimit ==
    [][(AttemptStep /\ call'.result = "return") =>
          /\ quota'.used_today > 0
          /\ quota'.used_today <= (quota'.daily_limit * 9) \div 10]_vars

\* a consume that used up the effective limit, after a day rollover
C7_Witness ==
    /\ call.pc = "idle"
    /\ call.result = "return"
    /\ call.attempts > 0
    /\ quota.daily_limit = MaxDailyLimit
    /\ quota.used_today = effective_limit(quota)
    /\ quota.last_reset = Some(today_pt(MaxNow))

\* the 403 responses whose reason is quota-exceeded
QuotaResponses == {Http(403, "quotaExceeded"), Http(403, "dailyLimitExceeded")}

\* C9: when the platform answers 403 with a quota-exceeded reason,
\* make_request raises QuotaExceeded after that attempt and sends no further
\* attempt for the call.
C9_Quota403NotRetried ==
    /\ [](\A resp \in QuotaResponses :
            call.last_response = Some(resp) =>
               /\ call.pc = "idle"
               /\ call.result = "QuotaExceededError")
    /\ [][AttemptStep => call.last_response \notin {Some(r) : r \in QuotaResponses}]_vars

\* a call ended by a quota 403 on its first attempt, nothing consumed
C9_Witness ==
    /\ call.last_response = Some(Http(403, "quotaExceeded"))
    /\ call.attempts = 1
    /\ call.result = "QuotaExceededError"
    /\ quota.used_today = 0

\* C10 as stated: a response with a 4xx status other than 429 and other than
\* a quota-exceeded 403 is never retried; the call ends with a per-call
\* failure.
C10_Other4xxNotRetried ==
    \A resp \in Responses \ QuotaResponses :
       (resp.status \in 400..499 /\ resp.status # 429
          /\ call.last_response = Some(resp)) =>
             /\ call.pc = "idle"
             /\ call.result \in {"YouTubeAPIError", "RetryableError"}

\* C10 amended: a response with a 4xx status other than 429 and 403 is never
\* retried: no attempt follows it and the call ends with YouTubeAPIError; a
\* 403 whose reason is not quota-exceeded is retried like a 429.
C10_Other4xxExcept403NotRetried ==
    /\ [](\A resp \in Responses :
            (resp.status \in 400..499 /\ resp.status \notin {403, 429}
               /\ call.last_response = Some(resp)) =>
                  /\ call.pc = "idle"
                  /\ call.result = "YouTubeAPIError")
    /\ [](\A resp \in Responses \ QuotaResponses :
            (resp.status = 403 /\ call.last_response = Some(resp)) =>
                  (call.pc = "request" <=> call.attempts < 5))

\* a call ended by a 404 on its first attempt
C10_Witness ==
    /\ call.last_response = Some(Http(404, ""))
    /\ call.attempts = 1
    /\ call.pc = "idle"
    /\ call.result = "YouTubeAPIError"

\* the responses the claims call transport failures: timeout, connection
\* error, 429 and every 5xx
TransportFailures ==
    {r \in Responses : r.exc \in {"Timeout", "ConnectionError"}
                       \/ r.status = 429 \/ r.status \in 500..599}

\* C11 as stated: a timeout, a connection error, a 429 and a 5xx response are
\* retried as long as fewer than 5 attempts have been made.
C11_TransportFailuresRetried ==
    \A resp \in TransportFailures :
       (call.last_response = Some(resp) /\ call.attempts < 5) => call.pc = "request"

\* C11 amended: a timeout, a connection error, a 429 and a response with
\* status 500, 502, 503 or 504 are retried as long as fewer than 5 attempts
\* have been made (any other 5xx ends the call with YouTubeAPIError after
\* that attempt); one call makes at most 5 attempts, returns with the first
\* response of status 200, raises a failure when the fifth attempt fails,
\* and always terminates.
C11_RetriesAtMostFiveAttempts ==
    /\ [](\A resp \in TransportFailures :
            (call.last_response = Some(resp) /\ call.attempts < 5) =>
               IF resp.status \in 500..599 /\ resp.status \notin {500, 502, 503, 504}
               THEN call.pc = "idle" /\ call.result = "YouTubeAPIError"
               ELSE call.pc = "request")
    /\ [](call.attempts <= 5)
    /\ [](call.attempts = 5 => call.pc = "idle")
    /\ []((call.attempts = 5 /\ call.last_response # Some(Http(200, ""))) =>
             call.result \in {"RetryableError", "QuotaExceededError", "YouTubeAPIError"})
    /\ [](call.last_response = Some(Http(200, "")) =>
             call.pc = "idle" /\ call.result = "return")
    /\ [][(AttemptStep /\ call'.result = "return") =>
             call'.last_response = Some(Http(200, ""))]_vars
    /\ (call.pc = "request" ~> call.pc = "idle")

\* a call given up after five attempts, the last one a 503
C11_Witness ==
    /\ call.attempts = 5
    /\ call.pc = "idle"
    /\ call.result = "RetryableError"
    /\ call.last_response = Some(Http(503, ""))

\* the results of the batch so far that are acceptances
AcceptedResults ==
    {a \in 1..Len(gating.results) : gating.results[a].accepted}

\* gate_batch is running or has just returned: the store is as it was preloaded
GateBatchRunning == ingest.pc \in {"gate", "insert"}

\* a step that gates one candidate
GateStep ==
    /\ ingest.pc = "gate"
    /\ Len(gating'.results) = Len(gating.results) + 1

\* C12: for any batch, any preloaded 24-hour per-channel counts and any
\* max_per_channel, the number of candidates gate_batch accepts for a channel
\* is at most max(0, max_per_channel - preloaded count of the channel).
C12_ChannelCapRespected ==
    GateBatchRunning =>
       \A c \in Channels :
          LET n == Cardinality({a \in AcceptedResults :
                                   gating.results[a].video.channel_id = c})
              room == gating.max_per_channel - channel_counts_24h[c]
          IN  /\ n <= (IF room > 0 THEN room ELSE 0)
              /\ n <= gating.max_per_channel

\* gate_batch has returned: ch1 had 4 of its 5 and one more was accepted,
\* another candidate of ch1 was rejected for the cap
C12_Witness ==
    /\ ingest.pc = "insert"
    /\ gating.max_per_channel = 5
    /\ channel_counts_24h["ch1"] = 4
    /\ Cardinality({a \in AcceptedResults : gating.results[a].video.channel_id = "ch1"}) = 1
    /\ \E a \in 1..Len(gating.results) :
          /\ gating.results[a].rejection_reason = "channel_cap"
          /\ gating.results[a].video.channel_id = "ch1"

\* C13: in one gating batch no video_id is accepted twice and no video_id of
\* the preloaded seen set is accepted; each acceptance adds the id to the
\* seen set before the next candidate is examined.
C13_NoDuplicateAccepted ==
    /\ [](GateBatchRunning =>
            /\ \A a, b \in AcceptedResults :
                  gating.results[a].video.video_id = gating.results[b].video.video_id
                     => a = b
            /\ \A a \in AcceptedResults :
                  gating.results[a].video.video_id \notin existing_video_ids)
    /\ [][(GateStep /\ gating'.results[Len(gating'.results)].accepted) =>
             gating'.results[Len(gating'.results)].video.video_id
                \in gating'.seen_video_ids]_vars

\* a batch that held v1 twice: accepted once, then rejected as duplicate;
\* and v0, known to the store, rejected as duplicate
C13_Witness ==
    /\ ingest.pc = "insert"
    /\ existing_video_ids = {"v0"}
    /\ \E a, b, c \in 1..Len(gating.results) :
          /\ a < b
          /\ gating.results[a].video.video_id = "v1"
          /\ gating.results[a].accepted
          /\ gating.results[b].video.video_id = "v1"
          /\ gating.results[b].rejection_reason = "duplicate"
          /\ gating.results[c].video.video_id = "v0"
          /\ gating.results[c].rejection_reason = "duplicate"

\* the sequence of C14: (v0,ch1), (v1,ch1), (v2,ch1), (v3,ch2)
C14Example ==
    [a \in 1..4 |->
        <<"intent_seed",
          [video_id |-> <<"v0", "v1", "v2", "v3">>[a],
           channel_id |-> <<"ch1", "ch1", "ch1", "ch2">>[a],
           title |-> "t1",
           published_at |-> -24]>>]

\* C14: gate applies the rules in the order duplicate, age, channel cap and
\* reports the first failing one; a rejected candidate leaves the seen set
\* and the channel counts unchanged; the sequence (v0,ch1),(v1,ch1),(v2,ch1),
\* (v3,ch2) with seen {v0}, ch1 count 4 and cap 5 gives duplicate, accepted,
\* channel_cap, accepted.
C14_RuleOrder ==
    /\ [][GateStep =>
            LET r == gating'.results[Len(gating'.results)]
                v == ingest.all_candidates[gating.i + 1][2]
                count == IF v.channel_id \in DOMAIN gating.channel_counts
                         THEN gating.channel_counts[v.channel_id] ELSE 0
                reason == IF v.video_id \in gating.seen_video_ids THEN "duplicate"
                          ELSE IF now - v.published_at > 90 * 24 THEN "too_old"
                          ELSE IF count >= gating.max_per_channel THEN "channel_cap"
                          ELSE ""
            IN  /\ r.video = v
                /\ r.rejection_reason = reason
                /\ r.accepted <=> reason = ""
                /\ ~r.accepted =>
                      /\ gating'.seen_video_ids = gating.seen_video_ids
                      /\ gating'.channel_counts = gating.channel_counts]_vars
    /\ []((/\ ingest.all_candidates = C14Example
           /\ ingest.pc = "insert"
           /\ existing_video_ids = {"v0"}
           /\ channel_counts_24h["ch1"] = 4
           /\ gating.max_per_channel = 5) =>
             [a \in 1..4 |-> gating.results[a].rejection_reason]
                = <<"duplicate", "", "channel_cap", "">>)

\* the sequence of C14 gated, and a candidate that was both a duplicate and
\* over the cap of its channel in the run of another sequence
C14_Witness ==
    /\ ingest.all_candidates = C14Example
    /\ ingest.pc = "insert"
    /\ existing_video_ids = {"v0"}
    /\ channel_counts_24h["ch1"] = 4
    /\ gating.max_per_channel = 5
    /\ Len(gating.results) = 4
    /\ gating.results[2].accepted
    /\ gating.results[3].rejection_reason = "channel_cap"
    /\ gating.channel_counts["ch1"] = 5

IsPrefix(a, b) == Len(a) <= Len(b) /\ SubSeq(b, 1, Len(a)) = a

\* run_all_feeders returns, or a feeder of it gives way to the next
FeedersReturn == ingest.pc = "feeder" /\ ingest'.pc # "feeder"

\* C15: when one feeder hits QuotaExceeded only that feeder stops: it makes
\* no further search, the candidates produced so far by it and by earlier
\* feeders stay in the aggregated result, and every remaining feeder is
\* still invoked.
C15_QuotaStopsOnlyThatFeeder ==
    /\ [][(ingest.pc = "feeder" /\ ingest'.pc \in {"feeder", "gating"}) =>
             IsPrefix(ingest.all_candidates, ingest'.all_candidates)]_vars
    /\ [][(ingest.pc = "feeder" /\ ingest.stopped) =>
             /\ ingest'.all_candidates = ingest.all_candidates
             /\ ingest'.pc # "feeder" \/ ingest'.f = ingest.f + 1]_vars
    /\ [][FeedersReturn =>
             ingest.invoked = <<"intent_seed", "graph_expand", "longtail">>]_vars
    /\ [](\A t \in ingest.quota_exceeded :
             \E a \in 1..Len(ingest.invoked) : ingest.invoked[a] = t)

\* the intent-seed feeder produced a candidate and then hit QuotaExceeded;
\* the long-tail feeder ran after it and produced one too; both are in the
\* result handed to gating
C15_Witness ==
    /\ ingest.pc = "gating"
    /\ ingest.quota_exceeded = {"intent_seed"}
    /\ ingest.invoked = <<"intent_seed", "graph_expand", "longtail">>
    /\ Len(ingest.all_candidates) = 2
    /\ ingest.all_candidates[1][1] = "intent_seed"
    /\ ingest.all_candidates[2][1] = "longtail"

\* the feeders are done and the run goes on with their candidates
FeedersDone == ingest.pc \in {"gating", "gate", "insert", "done"}

\* C16 as stated: one ingest run invokes the four feeders in the order
\* intent-seed, expansion, long-tail, free-feed.
C16_FourFeedersInvoked ==
    FeedersDone =>
       ingest.invoked = <<"intent_seed", "graph_expand", "longtail", "rss_expand">>

\* the place of a feeder tag in the order intent-seed, expansion, long-tail
FeederRank(tag) ==
    CASE tag = "intent_seed" -> 1 [] tag = "graph_expand" -> 2 [] OTHER -> 3

\* C16 amended: one ingest run invokes three feeders, in the order
\* intent-seed, expansion, long-tail (the free-feed feeder is no part of the
\* run), and gates their output in that order in a single pass, so when two
\* feeders emit the same video_id the accepted record carries the
\* feeder_source of the earlier feeder.
C16_EarlierFeederWins ==
    /\ FeedersDone => ingest.invoked = <<"intent_seed", "graph_expand", "longtail">>
    /\ \A a, b \in 1..Len(ingest.all_candidates) :
          a < b => FeederRank(ingest.all_candidates[a][1])
                      <= FeederRank(ingest.all_candidates[b][1])
    /\ ingest.pc \in {"gate", "insert", "done"} =>
          \A a \in 1..Len(gating.results) :
             /\ gating.results[a].video = ingest.all_candidates[a][2]
             /\ gating.results[a].feeder_source = ingest.all_candidates[a][1]
             /\ gating.results[a].accepted =>
                   \A b \in 1..Len(ingest.all_candidates) :
                      ingest.all_candidates[b][2].video_id = gating.results[a].video.video_id
                         => /\ a <= b
                            /\ FeederRank(gating.results[a].feeder_source)
                                  <= FeederRank(ingest.all_candidates[b][1])

\* v1 came from the intent-seed feeder and again from the long-tail feeder:
\* the first was accepted, the second rejected as duplicate
C16_Witness ==
    /\ ingest.pc = "insert"
    /\ \E a, b \in 1..Len(gating.results) :
          /\ gating.results[a].video.video_id = "v1"
          /\ gating.results[a].feeder_source = "intent_seed"
          /\ gating.results[a].accepted
          /\ gating.results[b].video.video_id = "v1"
          /\ gating.results[b].feeder_source = "longtail"
          /\ gating.results[b].rejection_reason = "duplicate"

\* the step in which the intent-seed feeder saves its cursor
IntentSeedEnd == ingest.pc = "feeder" /\ ingest.f = 1 /\ ingest'.f # 1

\* the seeds of the list from place c on, seeds_per_run of them at most
SeedsFrom(c) ==
    [a \in 1..(IF c + seeds_per_run <= SeedCount THEN seeds_per_run ELSE SeedCount - c)
        |-> c + a - 1]

\* C17 as stated: each invocation of the intent-seed feeder searches the
\* seeds_per_run seeds that start at the persisted cursor and persists the
\* cursor advanced by seeds_per_run, wrapping to the start at the end.
C17_CursorAdvancesBySeedsPerRun ==
    [][IntentSeedEnd =>
          /\ ingest.queries = SeedsFrom(ingestion_state)
          /\ ingest.k = Len(ingest.queries)
          /\ ingestion_state' = IF ingestion_state + seeds_per_run >= SeedCount
                                THEN 0
                                ELSE ingestion_state + seeds_per_run]_vars

\* C17 amended: each invocation of the intent-seed feeder takes the
\* seeds_per_run seeds that start at the persisted cursor (fewer at the end
\* of the list), searches them in order until one search raises
\* QuotaExceeded, and persists the cursor advanced by the number of searches
\* that returned, 0 when that reaches the end of the list; the cursor moves
\* forward by at most seeds_per_run, or wraps to the start.
C17_CursorAdvancesBySeedsProcessed ==
    /\ [](ingestion_state \in 0..(SeedCount - 1))
    /\ [][IntentSeedEnd =>
            /\ ingest.queries = SeedsFrom(ingestion_state)
            /\ ingest.k <= Len(ingest.queries)
            /\ ingest.k < Len(ingest.queries) => "intent_seed" \in ingest.quota_exceeded
            /\ ingest.seeds_processed <= ingest.k
            /\ ("intent_seed" \in ingest.quota_exceeded) => ingest.seeds_processed < ingest.k
            /\ ingestion_state' = IF ingestion_state + ingest.seeds_processed >= SeedCount
                                  THEN 0
                                  ELSE ingestion_state + ingest.seeds_processed
            /\ \/ ingestion_state' = 0
               \/ /\ ingestion_state' >= ingestion_state
                  /\ ingestion_state' <= ingestion_state + seeds_per_run]_vars
    /\ [][ingestion_state' # ingestion_state => IntentSeedEnd]_vars

\* the intent-seed feeder searched one seed, hit QuotaExceeded at the second
\* and saved the cursor advanced by one
C17_Witness ==
    /\ ingest.pc = "feeder"
    /\ ingest.f = 2
    /\ ingest.quota_exceeded = {"intent_seed"}
    /\ ingestion_state = 1
    /\ Len(ingest.all_candidates) = 1

\* the cluster_ids of the rows of niche_clusters of a window
WindowClusterIds(window) == {c.cluster_id : c \in {r \in niche_clusters : r.window = window}}

\* the cluster_ids of the clusters the pass of process p has produced
ProducedIds(p) ==
    {stable_cluster_id(cluster_pass[p].window, cluster_pass[p].groups[a]) :
        a \in 1..Len(cluster_pass[p].groups)}

\* C18: when a clustering pass for a window has completed, the rows of
\* niche_clusters of that window are exactly the clusters the pass produced,
\* also when the pass found no embeddings or produced no cluster.
C18_WindowRewrittenByPass ==
    \A p \in ClusterProcs :
        (cluster_pass[p].pc = "returned" /\ cluster_pass[p].status # "error")
            => WindowClusterIds(cluster_pass[p].window) = ProducedIds(p)

MembershipOf(cluster_id) ==
    {<<m.video_id, m.rank_in_cluster>> :
        m \in {r \in niche_cluster_videos : r.cluster_id = cluster_id}}

\* the membership upsert_cluster_videos writes for a cluster of videos
CompleteMembership(video_ids) ==
    {<<video_ids[a], a - 1>> : a \in 1..Len(video_ids)}

\* the tables hold, for its window, exactly what the pass of process p produced
HoldsPassOf(p) ==
    /\ WindowClusterIds(cluster_pass[p].window) = ProducedIds(p)
    /\ \A a \in 1..Len(cluster_pass[p].groups) :
          MembershipOf(stable_cluster_id(cluster_pass[p].window, cluster_pass[p].groups[a]))
              = CompleteMembership(cluster_pass[p].groups[a])

\* both processes have completed a pass for the same window
BothPassesDone ==
    /\ \A p \in ClusterProcs :
          cluster_pass[p].pc = "returned" /\ cluster_pass[p].status = "success"
    /\ cluster_pass["c1"].window = cluster_pass["c2"].window

\* C20: when two clustering passes for the same window have run concurrently
\* and both have completed, the window's rows of niche_clusters are exactly the
\* clusters of one of the two passes, each with its complete membership.
C20_ConcurrentPassesLeaveOnePass ==
    BothPassesDone => \E p \in ClusterProcs : HoldsPassOf(p)

\* C21: stable_cluster_id depends only on the window and the set of video ids:
\* two calls give the same id exactly when the windows are equal and the lists
\* hold the same ids, in whatever order.
C21_IdOfWindowAndSet ==
    fn.pc = "done" =>
        ((fn.result[1] = fn.result[2])
            <=> (/\ fn.args[1].window = fn.args[2].window
                 /\ {fn.args[1].video_ids[a] : a \in 1..Len(fn.args[1].video_ids)}
                       = {fn.args[2].video_ids[a] : a \in 1..Len(fn.args[2].video_ids)}))

\* the same three ids in two different orders got the same id
C21_Witness ==
    /\ fn.pc = "done"
    /\ fn.args[1].window = "7d" /\ fn.args[2].window = "7d"
    /\ fn.args[1].video_ids = <<"ab", "b", "a">>
    /\ fn.args[2].video_ids = <<"b", "a", "ab">>
    /\ fn.result[1] = fn.result[2]

\* the upsert of a run that got the candidates of the previous run
RerunUpsertStep ==
    /\ platform.runs >= 2
    /\ ingest.pc = "insert"
    /\ ingest'.pc = "done"

\* no row is new and no field of a row but last_seen_at has changed
OnlyLastSeenChanged ==
    /\ DOMAIN video_rows' = DOMAIN video_rows
    /\ \A v \in DOMAIN video_rows :
          [video_rows'[v] EXCEPT !.last_seen_at = 0] = [video_rows[v] EXCEPT !.last_seen_at = 0]

\* every row is on the same side of the 24-hour and of the 7-day limit on
\* first_seen_at, and every candidate on the same side of the 90-day limit on
\* its age, at this run as at the previous one
SameSideOfLimits ==
    /\ \A v \in DOMAIN video_rows : \A limit \in {24, 168} :
          (video_rows[v].first_seen_at > platform.prev_at - limit)
             <=> (video_rows[v].first_seen_at > platform.at - limit)
    /\ \A a \in 1..Len(platform.candidates) :
          (platform.prev_at - platform.candidates[a][2].published_at <= 2160)
             <=> (platform.at - platform.candidates[a][2].published_at <= 2160)

\* C22 as stated: a run that gets from the platform the candidates of the
\* previous run inserts no row and changes nothing on the rows but last_seen_at.
C22_RerunChangesOnlyLastSeen ==
    [][RerunUpsertStep => OnlyLastSeenChanged]_vars

\* C22, amended: it does so when every row is on the same side of the 24-hour
\* and 7-day first_seen_at limits, and every candidate on the same side of the
\* 90-day age limit, as at the previous run.
C22_RerunWithinLimitsChangesOnlyLastSeen ==
    [][(RerunUpsertStep /\ SameSideOfLimits) => OnlyLastSeenChanged]_vars

\* a second run, later than the first and within the limits, has updated a row
C22_Witness ==
    /\ platform.runs = 2
    /\ ingest.pc = "done"
    /\ platform.at > platform.prev_at
    /\ SameSideOfLimits
    /\ \E v \in DOMAIN video_rows :
          /\ video_rows[v].last_seen_at = platform.at
          /\ video_rows[v].first_seen_at < platform.prev_at

\* the names of the stage functions invoked so far in the iteration
StagesInvoked == [i \in 1..Len(worker.invoked) |-> worker.invoked[i][1]]

\* the iteration that invoked a stage is over, however it ended
IterationOver ==
    /\ worker.pc \in {"iteration_end", "sleep", "loop", "return", "raised", "exited"}
    /\ worker.invoked # <<>>

\* C23: in mode all, an iteration that has invoked ingest has, when it is over,
\* invoked snapshot after it and process after snapshot, whatever way each
\* stage ended (early exit, quota exhaustion, any other exception)
C23_LaterStagesAlwaysRun ==
    (worker.mode = "all" /\ IterationOver) =>
        StagesInvoked = <<"ingest", "snapshot", "process">>

\* an iteration whose ingest ran out of quota and whose snapshot failed has
\* gone through process
C23_Witness ==
    /\ worker.mode = "all"
    /\ worker.pc = "iteration_end"
    /\ Len(worker.invoked) = 3
    /\ worker.invoked[1] = <<"ingest", "QuotaExceededError">>
    /\ worker.invoked[2] = <<"snapshot", "Exception">>
    /\ worker.invoked[3][1] = "process"

\* a step of the program itself, not the arrival of a signal
ProgramStep == worker' # worker /\ worker'.signals = worker.signals

\* C24: in loop mode, once a signal has set the shutdown flag, no step starts
\* a new iteration, the step taken from a sleep leaves the sleep without
\* sleeping another second, the stage functions of the iteration in flight go on
\* to the end of the iteration, and the process ends
C24_ShutdownEndsLoop ==
    /\ [][(worker.shutdown_requested /\ ~worker.once) =>
            /\ worker'.iteration = worker.iteration
            /\ (worker.pc = "sleep" /\ ProgramStep) =>
                  worker'.pc # "sleep" /\ worker'.sleep_left = worker.sleep_left
            /\ (worker.pc \in {"stage_start", "stage_body", "stage_finish"} /\ ProgramStep) =>
                  worker'.pc \in {"stage_start", "stage_body", "stage_finish",
                                  "iteration_end"}]_vars
    /\ (worker.shutdown_requested /\ ~worker.once) ~> (worker.pc = "exited")

\* a looping worker whose sleep was cut short after one of its seconds has ended
C24_Witness ==
    /\ ~worker.once
    /\ worker.signals # {}
    /\ worker.pc = "exited"
    /\ worker.iteration = 1
    /\ worker.sleep_left = 1

\* the configuration cannot be loaded, or lacks the key the mode needs
FatalConfiguration ==
    \/ worker.config = "invalid"
    \/ worker.config = "no_api_key" /\ worker.mode # "process"

\* an exception reached cli from the mode runner
UnhandledError == worker.raised # {}

Interrupted == "SIGINT" \in worker.signals

StageReturns ==
    /\ worker.pc \in {"stage_body", "stage_finish"}
    /\ worker'.pc \in {"stage_start", "iteration_end"}

\* the end-of-run records logged for the run with this id
EndOfRunRecords(m, run_id) ==
    {i \in 1..Len(m.log) :
        /\ m.log[i].event \in {"ingest_complete", "snapshot_complete", "process_complete"}
        /\ m.log[i].metrics.run_id = run_id}

\* C26: when a stage function returns, the log holds exactly one end-of-run
\* record of that run, its errors counter is 1 exactly when the run was ended
\* by an exception, and for ingest and snapshot its quota_used and
\* quota_remaining are the tracker's used_today and remaining
C26_OneRecordWithFinalCounters ==
    [][StageReturns =>
        LET run_id == metrics.run_counter
            last == worker'.invoked[Len(worker'.invoked)]
            recs == EndOfRunRecords(metrics', run_id)
        IN  /\ Cardinality(recs) = 1
            /\ \A i \in recs :
                  LET rec == metrics'.log[i].metrics
                  IN  /\ rec.errors =
                           IF last[2] \in {"QuotaExceededError", "Exception"} THEN 1 ELSE 0
                      /\ last[1] \in {"ingest", "snapshot"} =>
                            /\ rec.quota_used = quota'.used_today
                            /\ rec.quota_remaining = remaining(quota', now)]_vars

\* the part of C26 that holds: exactly one end-of-run record per run, with the
\* errors counter of the run
C26_OneRecordPerRun ==
    [][StageReturns =>
        LET run_id == metrics.run_counter
            last == worker'.invoked[Len(worker'.invoked)]
            recs == EndOfRunRecords(metrics', run_id)
        IN  /\ Cardinality(recs) = 1
            /\ \A i \in recs :
                  metrics'.log[i].metrics.errors =
                      IF last[2] \in {"QuotaExceededError", "Exception"} THEN 1 ELSE 0]_vars

\* the rows of the batch of connection w that its transaction left in the table
StoredOf(w) ==
    {a \in 1..Len(conn[w].batch) :
        \E r \in video_stat_snapshots :
            /\ r.video_id = conn[w].batch[a].video_id
            /\ r.view_count = conn[w].batch[a].view_count
            /\ r.captured_at = Val(conn[w].tx)}

\* C27: when a batch method has returned and the server rejected the insert of
\* exactly one row, every other row of the batch is in the table and the count
\* returned is the number of rows of the batch in the table
C27_OnlyFailingRowLost ==
    \A w \in Workers :
        (conn[w].pc = "returned" /\ conn[w].returned # {} /\ Len(conn[w].batch) > 0
            /\ Cardinality(conn[w].rejected) = 1) =>
            /\ StoredOf(w) = (1..Len(conn[w].batch)) \ conn[w].rejected
            /\ conn[w].returned = {Cardinality(StoredOf(w))}

\* a step in which a client method asks the tracker whether it can afford a call
CheckStep == call.pc = "idle" /\ now' = now /\ call'.had # {}

\* a step in which a client method consumes the cost of a call that succeeded
ConsumeStep == AttemptStep /\ call'.result = "return"

\* the billing day of the clock: days change at 08:00 UTC
BillingDay == (now - 8) \div 24

\* C28: the first check or consume of a billing day (the tracker's last reset
\* is not of that day) starts from used_today = 0 and notes the day; every
\* other step leaves the day of the last reset alone and never lowers
\* used_today
C28_ResetAtBillingMidnight ==
    [][IF (CheckStep \/ ConsumeStep) /\ quota.last_reset # {BillingDay}
       THEN /\ quota'.last_reset = {BillingDay}
            /\ quota'.used_today = IF ConsumeStep THEN ClaimedCost(call.op) ELSE 0
       ELSE /\ quota'.last_reset = quota.last_reset
            /\ quota'.used_today >= quota.used_today]_vars

\* a call checked before the day boundary, with one unit used, and consumed
\* after it: the counter holds the cost of that call only
C28_Witness ==
    /\ now = 8
    /\ call.pc = "idle"
    /\ call.result = "return"
    /\ call.op = "videos.list"
    /\ quota.daily_limit = 113
    /\ call.had = {100}
    /\ quota.last_reset = {0}
    /\ quota.used_today = 1

\* a step in which the pre-check of a client method refuses the call
RefusedStep == CheckStep /\ call'.result = "QuotaExceededError"

\* a step in which a call ends without a result: retries exhausted, an error
\* that is not retried, a quota-exceeded 403
FailedStep == AttemptStep /\ call'.pc = "idle" /\ call'.result # "return"

\* the counter the tracker starts from at the current time: 0 when its last
\* reset is not of the current billing day
CountOfTheDay == IF quota.last_reset # {BillingDay} THEN 0 ELSE quota.used_today

\* C29 as stated: a call that succeeds adds its cost to used_today, a call that
\* is refused or fails leaves used_today as it was
C29_UsedGrowsByCostOnSuccessOnly ==
    [][/\ ConsumeStep => quota'.used_today = quota.used_today + ClaimedCost(call.op)
       /\ (RefusedStep \/ FailedStep) => quota'.used_today = quota.used_today]_vars

\* C29 amended: counted from the counter of the current billing day (0 when the
\* day changed since the last reset), a call that succeeds adds its cost once,
\* whatever the number of attempts; a refused call leaves that counter as it
\* is; an attempt that fails or is retried does not touch the tracker
C29_UsedOfTheDayGrowsByCostOnSuccessOnly ==
    [][/\ ConsumeStep => quota'.used_today = CountOfTheDay + ClaimedCost(call.op)
       /\ RefusedStep => quota'.used_today = CountOfTheDay
       /\ (AttemptStep /\ ~ConsumeStep) => quota' = quota]_vars

\* a search that succeeded at its third attempt has cost 100 units once
C29_Witness ==
    /\ call.pc = "idle"
    /\ call.op = "search.list"
    /\ call.result = "return"
    /\ call.attempts = 3
    /\ quota.used_today = 100

\* the commit that ends a call of a batch method on the connection followed
SaveCommits == conn["w1"].pc = "execute" /\ conn'["w1"].pc = "returned"

\* C30: no step removes or changes a row of video_stat_snapshots; the commit
\* of a call whose inserts the server all accepted adds exactly one row per
\* video ID of the batch, holding the view count given for that ID, whether or
\* not it is lower than a count stored before, and returns their number
C30_SnapshotsAppendOnly ==
    [][/\ video_stat_snapshots \subseteq video_stat_snapshots'
       /\ (SaveCommits /\ conn["w1"].rejected = {}) =>
             LET c == conn["w1"]
                 added == video_stat_snapshots' \ video_stat_snapshots
             IN  /\ Cardinality(added) = Len(c.batch)
                 /\ \A a \in 1..Len(c.batch) :
                       \E r \in added :
                           /\ r.video_id = c.batch[a].video_id
                           /\ r.view_count = c.batch[a].view_count
                           /\ r.captured_at = Val(c.tx)
                 /\ conn'["w1"].returned = {Len(c.batch)}]_vars

\* a count of 50 stored for v1 after a count of 70, both rows in the table
C30_Witness ==
    /\ conn["w1"].pc = "returned"
    /\ \E r1, r2 \in video_stat_snapshots :
          /\ r1.video_id = "v1" /\ r2.video_id = "v1"
          /\ r1.captured_at < r2.captured_at
          /\ r1.view_count = 70 /\ r2.view_count = 50

\* the snapshots of video v taken more than 24 hours ago
OlderThan24h(v) ==
    {r \in video_stat_snapshots : r.video_id = v /\ r.captured_at < now - 24}

\* the latest of the snapshots given
MostRecent(rows) == CHOOSE r \in rows : \A o \in rows : o.captured_at <= r.captured_at

\* C31: for every scored video the stored velocity_24h is null exactly when
\* the video has no snapshot older than 24 hours, and is otherwise the latest
\* view count minus the view count of the most recent snapshot older than 24
\* hours, a difference of zero or below included
C31_Velocity24hIsTheDifference ==
    \A v \in Videos :
        score_rows[v] # NULL =>
            LET row == Val(score_rows[v])
                mine == {r \in video_stat_snapshots : r.video_id = v}
            IN  /\ (row.velocity_24h = NULL) <=> (OlderThan24h(v) = {})
                /\ OlderThan24h(v) # {} =>
                      row.velocity_24h =
                          {MostRecent(mine).view_count - MostRecent(OlderThan24h(v)).view_count}

\* C32: a score row is written only for a video of the window that has at
\* least one snapshot
C32_ScoredOnlyWithSnapshot ==
    \A v \in Videos :
        score_rows[v] # NULL =>
            /\ discovered_videos[v].published_at > now - 7 * 24
            /\ \E r \in video_stat_snapshots : r.video_id = v

RssItemsLookedAt ==
    UNION {{rss.read[a][b] : b \in 1..(IF Len(rss.read[a]) < 2 THEN Len(rss.read[a]) ELSE 2)}
           : a \in 1..Len(rss.read)}

\* C34: when the free-feed feeder has gone through its channels, its
\* candidates are the items looked at whose id is not in the known-id set,
\* none has a known id, and used_today is what it was
C34_EmitsEveryUnknownItem ==
    rss.pc \in {"collected", "done"} =>
        /\ {rss.candidates[a] : a \in 1..Len(rss.candidates)}
              = {i \in RssItemsLookedAt : i.video_id \notin rss.existing_ids}
        /\ quota.used_today = 0

\* the windows in the list a call has returned
ReturnedWindows == {fn.result[a] : a \in 1..Len(fn.result)}

\* the age a call was made with, in hours
CallAge == fn.args.now - fn.args.published_at

\* C35: check_age_eligibility returns exactly the windows whose length is at
\* least the age, the bound included: at exactly 1 day all four, just over 7
\* days only 30d and 90d, over 90 days none; a window of the list comes with
\* every longer one
C35_EligibleWindowsInclusive ==
    fn.pc = "done" =>
        /\ ("24h" \in ReturnedWindows) <=> (CallAge <= 24)
        /\ ("7d" \in ReturnedWindows) <=> (CallAge <= 168)
        /\ ("30d" \in ReturnedWindows) <=> (CallAge <= 720)
        /\ ("90d" \in ReturnedWindows) <=> (CallAge <= 2160)
        /\ ReturnedWindows \subseteq {"24h", "7d", "30d", "90d"}
        /\ CallAge = 24 => fn.result = <<"24h", "7d", "30d", "90d">>
        /\ CallAge = 169 => fn.result = <<"30d", "90d">>
        /\ CallAge > 2160 => fn.result = <<>>
        /\ "24h" \in ReturnedWindows => "7d" \in ReturnedWindows
        /\ "7d" \in ReturnedWindows => "30d" \in ReturnedWindows
        /\ "30d" \in ReturnedWindows => "90d" \in ReturnedWindows

\* a call at an age of exactly 7 days has returned
C35_Witness ==
    /\ fn.pc = "done"
    /\ CallAge = 168
    /\ fn.result = <<"7d", "30d", "90d">>

\* C36: for any number of leased videos and any batch size, no call of
\* get_video_stats carries more than 50 ids, and when the run is over without
\* quota having ended it every leased id has been requested in exactly one batch
C36_BatchesOfAtMost50CoverAll ==
    fn.pc = "done" =>
        /\ fn.result.longest <= 50
        /\ fn.result.ended_by # "quota" =>
              \A a \in 1..fn.args.n : fn.result.requested[a] = 1

\* C37: whatever runs of the intent-seed feeder have been made, complete,
\* stopped by quota, with failed searches or concurrent, the cursor stored is
\* an index of the list of seeds
C37_CursorIsAnIndex ==
    /\ ingestion_state >= 0
    /\ ingestion_state < Len(INTENT_SEEDS)

\* two processes have read the same cursor, one has saved a cursor wrapped
\* around to 0 and the other has still to save, with a search that failed
C37_Witness ==
    /\ ingestion_state = 0
    /\ seed_feeder.run["p1"].pc = "idle"
    /\ seed_feeder.run["p2"].pc = "loop"
    /\ seed_feeder.run["p2"].cursor = 4
    /\ seed_feeder.run["p2"].k = 1
    /\ seed_feeder.run["p2"].seeds_processed = 0
    /\ seed_feeder.searched = {0, 1, 2, 3, 4}

\* the results of the batch so far that say accepted
ResultsAccepted == {a \in 1..Len(gating.results) : gating.results[a].accepted}

\* C38: after every candidate of a gating batch, total_candidates is the sum
\* of accepted and the three rejection counters, and accepted is the number
\* of results returned so far with accepted = true
C38_GatingCountersConsistent ==
    /\ gating.stats.total_candidates =
          gating.stats.accepted + gating.stats.rejected_duplicate
             + gating.stats.rejected_too_old + gating.stats.rejected_channel_cap
    /\ gating.stats.accepted = Cardinality(ResultsAccepted)
    /\ gating.stats.total_candidates = Len(gating.results)

\* a batch with one candidate accepted and one rejected for each reason
C38_Witness ==
    /\ gating.stats.accepted = 1
    /\ gating.stats.rejected_duplicate = 1
    /\ gating.stats.rejected_too_old = 1
    /\ gating.stats.rejected_channel_cap = 1
    /\ gating.stats.total_candidates = 4

\* C39: over runs of the intent-seed feeder made one after the other, the
\* first search of each run not being refused for quota, every seed of the
\* list is searched at some time, searches failing with other errors included
C39_EverySeedEventuallySearched ==
    \A a \in 1..Len(INTENT_SEEDS) : <>(INTENT_SEEDS[a] \in seed_feeder.searched)

\* video v is due for a snapshot now
DueNow(v) == \E r \in DueRows(now, video_stat_snapshots) : r.video_id = v

\* C40: over repeated snapshot runs with enough quota, a video that is due
\* between two runs and whose statistics the platform returns gets a
\* snapshot taken from then on, also when a due video of equal or higher
\* priority never gets statistics
C40_LiveDueVideoEventuallySnapshotted ==
    \A v \in {"v2"} : \A t \in 0..MaxNow :
        (conn["w2"].pc = "idle" /\ now = t /\ DueNow(v))
            ~> (\E r \in video_stat_snapshots : r.video_id = v /\ r.captured_at >= t)

====
